---- MODULE Spec2Model ----
(***************************************************************************)
(* A model of the X-ray image-formation pipeline of src/simulate_xray.py   *)
(* (magnification, energy scaling, filtration, Beer-Lambert, exposure,     *)
(* clipping; 1D profile, 2D radiograph, sinogram).                         *)
(*                                                                         *)
(* Numbers.  A real number is an exact rational [n, d] in lowest terms.    *)
(* An intensity is the exact symbolic value c * exp(-e), kept as the pair  *)
(* [c, e] of rationals, so that the multiplicative steps stay exact; only  *)
(* np.clip has to compare such a value with 0 and 1, which is done with    *)
(* certified fixed-point bounds of exp.                                    *)
(*                                                                         *)
(* Arrays.  A 2D array is a sequence of rows; image.shape = (nx, ny) is    *)
(* (Len(image), Len(image[1])); axis 0 runs over rows.  Indices are        *)
(* 1-based here and 0-based in the source.                                 *)
(*                                                                         *)
(* Library calls (skimage rotate / rescale / radon) interpolate; they are  *)
(* modelled with the library's output shape and nearest-neighbour          *)
(* sampling in place of its bilinear interpolation.                        *)
(*                                                                         *)
(* Objects.  heap is the store of the array objects of a call: heap[r] is  *)
(* the content of the object with reference r; the caller's arguments are  *)
(* the first objects, out is the reference of the object the call          *)
(* returned (0 when it returned none), so that returning an argument       *)
(* itself and returning a copy of it differ.  trace lists the steps of     *)
(* the call in the order its statements run.  np_random is the state of    *)
(* numpy's global random generator.  gui is the window of gui.py: the      *)
(* values of its widgets, the texts of its labels and the calls of the     *)
(* pipeline and of roi_mean_std its last update_projection made.           *)
(***************************************************************************)
EXTENDS Integers, Sequences, FiniteSets, TLC

VARIABLES pc, op, args, res, heap, out, trace, np_random, gui

vars == <<pc, op, args, res, heap, out, trace, np_random, gui>>

(***************************************************************************)
(* Bounds of the model.                                                    *)
(***************************************************************************)
\* largest image side of the phantoms handed to magnification alone
MaxDim == 3
\* largest image side of the phantoms handed to the full pipeline
MaxPipeDim == 2
\* largest sinogram max_angle (degrees) a call passes
MaxAngle == 2
\* largest number of rows of the mu-maps handed to the compression alone
MaxRows == 5
\* largest number of draws other code makes from numpy's global generator
MaxGlobalDraws == 3

(***************************************************************************)
(* Exact rational arithmetic.                                              *)
(***************************************************************************)
Abs(x) == IF x < 0 THEN -x ELSE x

Min(a, b) == IF a <= b THEN a ELSE b

Max(a, b) == IF a >= b THEN a ELSE b

RECURSIVE GCD(_, _)
GCD(a, b) == IF b = 0 THEN a ELSE GCD(b, a % b)

\* the rational n/d (d # 0) in lowest terms with a positive denominator
Q(n, d) ==
    LET g == GCD(Abs(n), Abs(d))
        s == IF d < 0 THEN -1 ELSE 1
    IN  [n |-> (s * n) \div g, d |-> (s * d) \div g]

QInt(k) == [n |-> k, d |-> 1]

QAdd(a, b) == Q(a.n * b.d + b.n * a.d, a.d * b.d)

QMul(a, b) == Q(a.n * b.n, a.d * b.d)

QDiv(a, b) == Q(a.n * b.d, a.d * b.n)

QNeg(a) == [n |-> -a.n, d |-> a.d]

QLt(a, b) == a.n * b.d < b.n * a.d

QLe(a, b) == a.n * b.d <= b.n * a.d

\* floor and ceiling of the integer quotient a/b, b > 0
FloorDiv(a, b) == a \div b

CeilDiv(a, b) == -((-a) \div b)

\* np.round / Python round: the nearest integer to a/b (b > 0), ties to even
RoundHalfEven(a, b) ==
    LET f == FloorDiv(a, b)
        r == 2 * (a - f * b)
    IN  IF r < b THEN f
        ELSE IF r > b THEN f + 1
        ELSE IF f % 2 = 0 THEN f ELSE f + 1

(***************************************************************************)
(* Certified bounds of exp(x), 0 <= x, in units of 1/10000.                *)
(***************************************************************************)
RECURSIVE TaylorLo(_, _, _, _)
\* sum of the terms x^j/j!, j = k..10, each rounded down
TaylorLo(x, k, term, acc) ==
    IF k > 10 THEN acc
    ELSE TaylorLo(x, k + 1, FloorDiv(term * x, 10000 * (k + 1)), acc + term)

RECURSIVE TaylorHi(_, _, _, _)
\* the same sum with each term rounded up
TaylorHi(x, k, term, acc) ==
    IF k > 10 THEN acc
    ELSE TaylorHi(x, k + 1, CeilDiv(term * x, 10000 * (k + 1)), acc + term)

\* a lower bound of 10000 * exp(q), q >= 0 (exp(2) = 7.38905...)
ExpLo(q) ==
    IF q.n >= 2 * q.d THEN 73890
    ELSE TaylorLo(FloorDiv(q.n * 10000, q.d), 0, 10000, 0)

\* an upper bound of 10000 * exp(q) for 0 <= q < 2; the tail after the
\* term x^10/10! is below 1/10000 there.  Exact (10000) at q = 0.
ExpHi(q) ==
    IF q.n = 0 THEN 10000
    ELSE TaylorHi(CeilDiv(q.n * 10000, q.d), 0, 10000, 0) + 1

ExpHiKnown(q) == q.n < 2 * q.d

(***************************************************************************)
(* Intensities: the value c * exp(-e).                                     *)
(***************************************************************************)
Val(c, e) == [c |-> c, e |-> IF c.n = 0 THEN QInt(0) ELSE e]

\* c * exp(-e) > 1, decided where the bounds of exp decide it
Exceeds1(v) ==
    IF v.c.n <= 0 THEN FALSE
    ELSE IF v.e.n >= 0
         THEN \* c > exp(e)
              ExpHiKnown(v.e) /\ v.c.n * 10000 > ExpHi(v.e) * v.c.d
         ELSE \* c * exp(|e|) > 1
              ExpLo(QNeg(v.e)) * v.c.n > 10000 * v.c.d

\* c * exp(-e) <= 1, decided where the bounds of exp decide it
AtMost1(v) ==
    IF v.c.n <= 0 THEN TRUE
    ELSE IF v.e.n >= 0
         THEN v.c.n * 10000 <= ExpLo(v.e) * v.c.d
         ELSE ExpHiKnown(QNeg(v.e)) /\ ExpHi(QNeg(v.e)) * v.c.n <= 10000 * v.c.d

\* the comparison with 1 is decided for this value
Decided(v) == Exceeds1(v) \/ AtMost1(v)

(***************************************************************************)
(* Arrays.                                                                 *)
(***************************************************************************)
NX(image) == Len(image)

NY(image) == IF Len(image) = 0 THEN 0 ELSE Len(image[1])

RECURSIVE SumQ(_)
SumQ(s) == IF Len(s) = 0 THEN QInt(0) ELSE QAdd(s[1], SumQ(Tail(s)))

\* np.sum(a, axis=0): one total per column
SumAxis0(a) == [j \in 1..NY(a) |-> SumQ([i \in 1..NX(a) |-> a[i][j]])]

\* np.cumsum(a, axis=1): running totals along each row
CumsumAxis1(a) ==
    [i \in 1..NX(a) |-> [j \in 1..NY(a) |-> SumQ(SubSeq(a[i], 1, j))]]

\* np.zeros_like(a)
ZerosLike(a) == [i \in 1..NX(a) |-> [j \in 1..NY(a) |-> QInt(0)]]

Map1(F(_), s) == [j \in 1..Len(s) |-> F(s[j])]

Map2(F(_), a) == [i \in 1..Len(a) |-> [j \in 1..Len(a[i]) |-> F(a[i][j])]]

\* results of a call: a value, or the exception that reaches the caller
Ok(v) == [exc |-> "none", val |-> v]

Raise(e) == [exc |-> e, val |-> <<>>]

(***************************************************************************)
(* Library stand-ins (skimage.transform).                                  *)
(***************************************************************************)
\* 10000 * sin(deg), deg in 0..90, for the degrees the model uses
Sin10k(deg) ==
    CASE deg = 0 -> 0      [] deg = 1 -> 175    [] deg = 2 -> 349
      [] deg = 3 -> 523    [] deg = 4 -> 698    [] deg = 5 -> 872
      [] deg = 15 -> 2588  [] deg = 20 -> 3420  [] deg = 30 -> 5000
      [] deg = 45 -> 7071  [] deg = 60 -> 8660  [] deg = 70 -> 9397
      [] deg = 75 -> 9659  [] deg = 85 -> 9962  [] deg = 86 -> 9976
      [] deg = 87 -> 9986  [] deg = 88 -> 9994  [] deg = 89 -> 9998
      [] deg = 90 -> 10000

\* 10000 * sin and 10000 * cos of any integer degree, by the symmetries
SinDeg(deg) ==
    LET d == deg % 360
    IN  IF d <= 90 THEN Sin10k(d)
        ELSE IF d <= 180 THEN Sin10k(180 - d)
        ELSE IF d <= 270 THEN -Sin10k(d - 180)
        ELSE -Sin10k(360 - d)

CosDeg(deg) == SinDeg(deg + 90)

\* the input index (1-based) that output index (x, y) samples on axis 0 and
\* on axis 1 when the grid is turned by deg about its centre
RotSrcX(x, y, nx, ny, deg) ==
    RoundHalfEven(CosDeg(deg) * (2 * x - (nx + 1)) + SinDeg(deg) * (2 * y - (ny + 1))
                  + 10000 * (nx + 1), 20000)

RotSrcY(x, y, nx, ny, deg) ==
    RoundHalfEven(CosDeg(deg) * (2 * y - (ny + 1)) - SinDeg(deg) * (2 * x - (nx + 1))
                  + 10000 * (ny + 1), 20000)

Clamp(k, lo, hi) == Max(lo, Min(k, hi))

\* skimage.transform.rotate(image, angle, resize=False, mode='edge'):
\* same shape, samples outside the grid take the nearest edge pixel
rotate(image, deg) ==
    LET nx == NX(image)
        ny == NY(image)
    IN  [x \in 1..nx |-> [y \in 1..ny |->
            image[Clamp(RotSrcX(x, y, nx, ny, deg), 1, nx)]
                 [Clamp(RotSrcY(x, y, nx, ny, deg), 1, ny)]]]

\* the side of rescale's output for an input side n and scale M:
\* np.maximum(np.round(scale * shape), 1)
ScaledLen(n, M) == Max(RoundHalfEven(n * M.n, M.d), 1)

\* the input index output index i samples when n is resampled to s pixels
ResampleSrc(i, s, n) == Clamp(RoundHalfEven((2 * i - 1) * n + s, 2 * s), 1, n)

\* skimage.transform.rescale(image, scale=M, mode='edge',
\*                           anti_aliasing=False, preserve_range=True)
rescale(image, M) ==
    LET nx == NX(image)
        ny == NY(image)
        sx == ScaledLen(nx, M)
        sy == ScaledLen(ny, M)
    IN  [i \in 1..sx |-> [j \in 1..sy |->
            image[ResampleSrc(i, sx, nx)][ResampleSrc(j, sy, ny)]]]

\* the least k with k >= sqrt(2) * n: ceil(sqrt(2) * n)
CeilSqrt2(n) == CHOOSE k \in n..(2 * n) : k * k >= 2 * n * n /\ (k - 1) * (k - 1) < 2 * n * n

\* radon's zero padding of the image to a square of side ceil(sqrt(2)*max(shape))
RadonPad(image) ==
    LET nx == NX(image)
        ny == NY(image)
        D == CeilSqrt2(Max(nx, ny))
        bx == ((nx + (D - nx)) \div 2) - (nx \div 2)
        by == ((ny + (D - ny)) \div 2) - (ny \div 2)
    IN  [i \in 1..D |-> [j \in 1..D |->
            IF i > bx /\ i <= bx + nx /\ j > by /\ j <= by + ny
            THEN image[i - bx][j - by] ELSE QInt(0)]]

\* warp of the padded image about its centre, zero outside the grid
RadonRotate(padded, deg) ==
    LET D == NX(padded)
    IN  [x \in 1..D |-> [y \in 1..D |->
            LET sx == RotSrcX(x, y, D, D, deg)
                sy == RotSrcY(x, y, D, D, deg)
            IN  IF sx >= 1 /\ sx <= D /\ sy >= 1 /\ sy <= D
                THEN padded[sx][sy] ELSE QInt(0)]]

\* skimage.transform.radon(image, theta=angles, circle=False): an array of
\* shape (D, len(angles)); column i is the projection at angles[i]
radon(image, angles) ==
    LET padded == RadonPad(image)
        D == NX(padded)
        proj == [i \in 1..Len(angles) |-> SumAxis0(RadonRotate(padded, angles[i]))]
    IN  [r \in 1..D |-> [i \in 1..Len(angles) |-> proj[i][r]]]

(***************************************************************************)
(* Geometry: magnification with centred crop / pad.                        *)
(***************************************************************************)
\* M = sdd / sid (sid # 0)
Magnification(sid, sdd) == Q(sdd, sid)

\* np.isclose(M, 1.0): |M - 1| <= 1e-8 + 1e-5 * 1, for M = sdd/sid
IsClose1(sid, sdd) ==
    LET diff == Abs(sdd - sid)
    IN  \/ diff = 0
        \/ diff <= 20 /\ Abs(sid) <= 2000000 /\ diff * 100000000 <= 1001 * Abs(sid)

\* first and one-past-last source index (0-based) of the copied block
x_start(sx, nx) == Max((sx - nx) \div 2, 0)

x_end(sx, nx) == x_start(sx, nx) + Min(nx, sx)

\* the block put at the start of the output instead of its centre
ox_start_uncentred(sx, nx) == 0

\* first and one-past-last destination index (0-based) of the copied block
ox_start(sx, nx) == Max((nx - sx) \div 2, 0)

ox_end(sx, nx) == ox_start(sx, nx) + (x_end(sx, nx) - x_start(sx, nx))

\* numpy's reading of a slice bound k on an axis of length n
SliceBound(k, n) == IF k < 0 THEN Max(k + n, 0) ELSE Min(k, n)

\* the number of elements numpy's a[lo:hi] selects on an axis of length n
SliceLen(lo, hi, n) == Max(SliceBound(hi, n) - SliceBound(lo, n), 0)

\* the padding filled with the nearest pixel of the copied block
PadValue_edge(scaled, image, i, j) ==
    scaled[Clamp(i - ox_start(NX(scaled), NX(image)), 1, NX(scaled))]
          [Clamp(j - ox_start(NY(scaled), NY(image)), 1, NY(scaled))]

\* the value the padding outside the copied block holds: np.zeros_like
PadValue(scaled, image, i, j) == QInt(0)

\* out = np.zeros_like(image); out[ox:ox_end, oy:oy_end] = scaled[x:x_end, y:y_end]
CropPad(scaled, image) ==
    LET nx == NX(image)
        ny == NY(image)
        sx == NX(scaled)
        sy == NY(scaled)
        xs == x_start(sx, nx)
        ys == x_start(sy, ny)
        oxs == ox_start(sx, nx)
        oys == ox_start(sy, ny)
    IN  IF \/ SliceLen(oxs, ox_end(sx, nx), nx) # SliceLen(xs, x_end(sx, nx), sx)
           \/ SliceLen(oys, ox_end(sy, ny), ny) # SliceLen(ys, x_end(sy, ny), sy)
        THEN Raise("ValueError")
        ELSE Ok([i \in 1..nx |-> [j \in 1..ny |->
                IF /\ i - 1 >= oxs /\ i - 1 < ox_end(sx, nx)
                   /\ j - 1 >= oys /\ j - 1 < ox_end(sy, ny)
                THEN scaled[xs + (i - 1 - oxs) + 1][ys + (j - 1 - oys) + 1]
                ELSE PadValue(scaled, image, i, j)]])

\* _apply_magnification(image, sid, sdd)
_apply_magnification(image, sid, sdd) ==
    IF sid = 0 THEN Raise("ZeroDivisionError")
    ELSE IF IsClose1(sid, sdd) THEN Ok(image)
    ELSE CropPad(rescale(image, Magnification(sid, sdd)), image)

(***************************************************************************)
(* Attenuation physics.                                                    *)
(***************************************************************************)
\* ref_kVp of _apply_energy_scaling
ref_kVp == 30

\* the factor of simulate_xray_2d's energy step is 40.0 / kVp
energy_ref_2d == 40

\* the ratio turned over: path_integral * (kVp / ref_kVp)
_apply_energy_scaling_inverted(P, kVp) == QMul(P, Q(kVp, ref_kVp))

\* path_integral * (ref_kVp / kVp), kVp # 0
_apply_energy_scaling(P, kVp) == QMul(P, Q(ref_kVp, kVp))

\* mu_al_ref of _apply_filtration (0.15) and of simulate_xray_2d (0.12)
mu_al_ref == Q(15, 100)

mu_al_ref_2d == Q(12, 100)

\* the filter taken as energy independent: path_integral + filtration_mmAl * mu_al_ref
_apply_filtration_flat(P, filtration_mmAl, kVp) ==
    QAdd(P, QMul(filtration_mmAl, mu_al_ref))

\* path_integral + filtration_mmAl * (mu_al_ref * (30.0 / kVp)), kVp # 0
_apply_filtration(P, filtration_mmAl, kVp) ==
    QAdd(P, QMul(filtration_mmAl, QMul(mu_al_ref, Q(30, kVp))))

\* I0 * np.exp(-path_integral)
BeerLambert(I0, P) == Val(I0, P)

\* the ratio turned over: I * (ref_time / exposure_time)
_apply_exposure_inverted(I, exposure_time) ==
    Val(QMul(I.c, QDiv(QInt(1), exposure_time)), I.e)

\* I * (exposure_time / ref_time), ref_time = 1.0
_apply_exposure(I, exposure_time) == Val(QMul(I.c, QDiv(exposure_time, QInt(1))), I.e)

\* the clip left out
Clip01_missing(v) == v

\* np.clip(I, 0.0, 1.0) of one value
Clip01(v) ==
    IF v.c.n < 0 THEN Val(QInt(0), QInt(0))
    ELSE IF Exceeds1(v) THEN Val(QInt(1), QInt(0))
    ELSE v

\* what a call returns: the exception that reached the caller or the value,
\* with the values of the function's local variables where it got that far
Result(exc, val, angles, P, Ps, Pc, pre) ==
    [exc |-> exc, val |-> val, angles |-> angles,
     P |-> P, Ps |-> Ps, Pc |-> Pc, pre |-> pre]

Failed(exc) == Result(exc, <<>>, <<>>, <<>>, <<>>, <<>>, <<>>)

\* Python binds a call's keyword arguments to the parameters of the def
Binds(params, kw) == kw \subseteq params

(***************************************************************************)
(* The three output modes.                                                 *)
(***************************************************************************)
Params_simulate_projection ==
    {"phantom", "I0", "sid", "sdd", "kVp", "exposure_time", "filtration_mmAl"}

\* simulate_projection(phantom, I0, sid, sdd, kVp, exposure_time, filtration_mmAl)
simulate_projection(a) ==
    IF ~Binds(Params_simulate_projection, a.kw) THEN Failed("TypeError")
    ELSE LET mag == _apply_magnification(a.phantom, a.sid, a.sdd)
         IN  IF mag.exc # "none" THEN Failed(mag.exc)
             ELSE IF a.kVp = 0 THEN Failed("ZeroDivisionError")
             ELSE LET E(p) == _apply_energy_scaling(p, a.kVp)
                      F(p) == _apply_filtration(p, a.filtration, a.kVp)
                      B(p) == BeerLambert(a.I0, p)
                      X(v) == _apply_exposure(v, a.exposure)
                      P == SumAxis0(mag.val)
                      Ps == Map1(E, P)
                      Pc == Map1(F, Ps)
                      I == Map1(X, Map1(B, Pc))
                  IN  Result("none", I, <<>>, P, Ps, Pc, I)

Params_simulate_projection_angle ==
    {"phantom", "angle_deg", "I0", "sid", "sdd", "kVp", "exposure_time", "filtration_mmAl"}

\* simulate_projection_angle(phantom, angle_deg, I0, sid, sdd, kVp, exposure_time,
\* filtration_mmAl): the profile I of the returned pair (I, rotated_mag)
simulate_projection_angle(a) ==
    IF ~Binds(Params_simulate_projection_angle, a.kw) THEN Failed("TypeError")
    ELSE LET rotated == rotate(a.phantom, a.angle)
             rotated_mag == _apply_magnification(rotated, a.sid, a.sdd)
         IN  IF rotated_mag.exc # "none" THEN Failed(rotated_mag.exc)
             ELSE IF a.kVp = 0 THEN Failed("ZeroDivisionError")
             ELSE LET E(p) == _apply_energy_scaling(p, a.kVp)
                      F(p) == _apply_filtration(p, a.filtration, a.kVp)
                      B(p) == BeerLambert(a.I0, p)
                      X(v) == _apply_exposure(v, a.exposure)
                      P == SumAxis0(rotated_mag.val)
                      Ps == Map1(E, P)
                      Pc == Map1(F, Ps)
                      I == Map1(X, Map1(B, Pc))
                  IN  Result("none", I, <<>>, P, Ps, Pc, I)

Params_simulate_xray_2d ==
    {"phantom", "angle_deg", "I0", "sid", "sdd", "kVp", "exposure_time", "filtration_mmAl"}

\* simulate_xray_2d(phantom, angle_deg, I0, sid, sdd, kVp, exposure_time, filtration_mmAl)
simulate_xray_2d(a) ==
    IF ~Binds(Params_simulate_xray_2d, a.kw) THEN Failed("TypeError")
    ELSE LET rotated == rotate(a.phantom, a.angle)
             ny == NY(rotated)
         IN  IF a.sid = 0 THEN Failed("ZeroDivisionError")
             ELSE LET mag == CropPad(rescale(rotated, Magnification(a.sid, a.sdd)), rotated)
                  IN  IF mag.exc # "none" THEN Failed(mag.exc)
                      ELSE IF a.kVp = 0 THEN Failed("ZeroDivisionError")
                      ELSE LET N(p) == QDiv(p, Q(ny, 2))
                               E(p) == QMul(p, Q(energy_ref_2d, a.kVp))
                               F(p) == QAdd(p, QMul(a.filtration,
                                                    QMul(mu_al_ref_2d, Q(30, a.kVp))))
                               B(p) == BeerLambert(a.I0, p)
                               X(v) == Val(QMul(v.c, QMul(a.exposure, QInt(3))), v.e)
                               P == Map2(N, CumsumAxis1(mag.val))
                               Ps == Map2(E, P)
                               Pc == Map2(F, Ps)
                               pre == Map2(X, Map2(B, Pc))
                           IN  Result("none", Map2(Clip01, pre), <<>>, P, Ps, Pc, pre)

\* np.arange(0, max_angle + 1, 1) for an integer max_angle
Arange(max_angle) == [i \in 1..Max(max_angle + 1, 0) |-> i - 1]

Params_simulate_sinogram ==
    {"phantom", "max_angle", "sid", "sdd", "kVp", "exposure", "filtration"}

\* simulate_sinogram(phantom, max_angle, sid, sdd, kVp, exposure, filtration):
\* the second def of that name, which is the one the module binds
simulate_sinogram(a) ==
    IF ~Binds(Params_simulate_sinogram, a.kw) THEN Failed("TypeError")
    ELSE LET mag == _apply_magnification(a.phantom, a.sid, a.sdd)
         IN  IF mag.exc # "none" THEN Failed(mag.exc)
             ELSE LET angles == Arange(a.max_angle)
                      sino == radon(mag.val, angles)
                  IN  IF a.kVp = 0 THEN Failed("ZeroDivisionError")
                      ELSE LET E(p) == _apply_energy_scaling(p, a.kVp)
                               F(p) == _apply_filtration(p, a.filtration, a.kVp)
                               B(p) == BeerLambert(QInt(1), p)
                               X(v) == _apply_exposure(v, a.exposure)
                               Ps == Map2(E, sino)
                               Pc == Map2(F, Ps)
                               pre == Map2(X, Map2(B, Pc))
                           IN  Result("none", Map2(Clip01, pre), angles, sino, Ps, Pc, pre)

(***************************************************************************)
(* The helpers of src/utils.py.                                            *)
(***************************************************************************)
\* every angle resampled, with the first row and column taken to be outside
\* the grid (x_in > 0 for x_in >= 0)
rotate_image_nn_exclusive_bounds(image, theta_deg) ==
    LET nx == NX(image)
        ny == NY(image)
    IN  [x \in 1..nx |-> [y \in 1..ny |->
            LET sx == RotSrcX(x, y, nx, ny, theta_deg)
                sy == RotSrcY(x, y, nx, ny, theta_deg)
            IN  IF sx > 1 /\ sx <= nx /\ sy > 1 /\ sy <= ny
                THEN image[sx][sy] ELSE QInt(0)]]

\* rotate_image_nn(image, theta_deg): nearest-neighbour rotation about the
\* centre, zero outside the grid; a copy when theta_deg % 360 == 0
rotate_image_nn(image, theta_deg) ==
    IF theta_deg % 360 = 0 THEN image
    ELSE LET nx == NX(image)
             ny == NY(image)
         IN  [x \in 1..nx |-> [y \in 1..ny |->
                 LET sx == RotSrcX(x, y, nx, ny, theta_deg)
                     sy == RotSrcY(x, y, nx, ny, theta_deg)
                 IN  IF sx >= 1 /\ sx <= nx /\ sy >= 1 /\ sy <= ny
                     THEN image[sx][sy] ELSE QInt(0)]]

\* the input index (1-based) output index x samples on an axis of n pixels:
\* np.round((x_out - cx) / M + cx), cx = (n - 1) / 2, M = sdd / sid
MagSrc(x, n, sid, sdd) ==
    RoundHalfEven((2 * (x - 1) - (n - 1)) * sid + (n - 1) * sdd, 2 * sdd) + 1

\* apply_magnification(phantom, sid, sdd) of utils.py: nearest-neighbour
\* resampling about the centre, zero outside the grid
apply_magnification(phantom, sid, sdd) ==
    IF sid = 0 THEN Raise("ZeroDivisionError")
    ELSE IF IsClose1(sid, sdd) THEN Ok(phantom)
    ELSE LET nx == NX(phantom)
             ny == NY(phantom)
         IN  Ok([x \in 1..nx |-> [y \in 1..ny |->
                 LET sx == MagSrc(x, nx, sid, sdd)
                     sy == MagSrc(y, ny, sid, sdd)
                 IN  IF sx >= 1 /\ sx <= nx /\ sy >= 1 /\ sy <= ny
                     THEN phantom[sx][sy] ELSE QInt(0)]])

(***************************************************************************)
(* Objects: which array a call returns and which arrays it writes.         *)
(***************************************************************************)
\* the outcome of a call on the store h: the store it leaves and the
\* reference of the object it returns (0: it raised)
Outcome(h, r) == [heap |-> h, ref |-> r]

\* a new object holding v
New(h, v) == Outcome(Append(h, v), Len(h) + 1)

\* an in-place write of v into the object r (a[...] = v, a *= k)
WriteTo(h, r, v) == [h EXCEPT ![r] = v]

\* the output array taken to be the input array itself
np_zeros_like_same_object(h, a) == Outcome(h, a)

\* np.zeros_like(a): a new array of a's shape
np_zeros_like(h, a) == New(h, Map2(LAMBDA v : QInt(0), h[a]))

\* a.copy(): a new array of a's content
np_copy(h, a) == New(h, h[a])

\* _apply_magnification(image, sid, sdd) on the object image: `return image`
\* when M is close to 1, else the new array out, written in place
Obj_apply_magnification(h, image, sid, sdd) ==
    IF sid = 0 THEN Outcome(h, 0)
    ELSE IF IsClose1(sid, sdd) THEN Outcome(h, image)
    ELSE LET o == np_zeros_like(h, image)
             m == CropPad(rescale(h[image], Magnification(sid, sdd)), h[image])
         IN  IF m.exc # "none" THEN Outcome(o.heap, 0)
             ELSE Outcome(WriteTo(o.heap, o.ref, m.val), o.ref)

\* apply_magnification(phantom, sid, sdd) of utils.py on the object phantom:
\* `return phantom.copy()` when M is close to 1, else the new array mag
Obj_utils_apply_magnification(h, phantom, sid, sdd) ==
    IF sid = 0 THEN Outcome(h, 0)
    ELSE IF IsClose1(sid, sdd) THEN np_copy(h, phantom)
    ELSE LET o == np_zeros_like(h, phantom)
         IN  Outcome(WriteTo(o.heap, o.ref, apply_magnification(h[phantom], sid, sdd).val),
                     o.ref)

\* rotate_image_nn(image, theta_deg) on the object image: `return
\* image.copy()` or the new array rotated
Obj_rotate_image_nn(h, image, theta_deg) ==
    IF theta_deg % 360 = 0 THEN np_copy(h, image)
    ELSE LET o == np_zeros_like(h, image)
         IN  Outcome(WriteTo(o.heap, o.ref, rotate_image_nn(h[image], theta_deg)), o.ref)

\* a call of one of the output modes on the mu-map object 1, r its result:
\* its arrays (rotated, out, path_integral, I) are new objects, the one it
\* returns holds r.val
Obj_simulate_projection(h, a, r) ==
    IF ~Binds(Params_simulate_projection, a.kw) THEN Outcome(h, 0)
    ELSE LET mag == Obj_apply_magnification(h, 1, a.sid, a.sdd)
         IN  IF r.exc # "none" THEN Outcome(mag.heap, 0)
             ELSE New(mag.heap, r.val)

Obj_simulate_projection_angle(h, a, r) ==
    IF ~Binds(Params_simulate_projection_angle, a.kw) THEN Outcome(h, 0)
    ELSE LET rotated == New(h, rotate(h[1], a.angle))
             mag == Obj_apply_magnification(rotated.heap, rotated.ref, a.sid, a.sdd)
         IN  IF r.exc # "none" THEN Outcome(mag.heap, 0)
             ELSE New(mag.heap, r.val)

\* simulate_xray_2d: out = np.zeros_like(rotated) is written in place, and
\* so is I (I *= exposure_time * 3.0), the array I0 * np.exp(...) made
Obj_simulate_xray_2d(h, a, r) ==
    IF ~Binds(Params_simulate_xray_2d, a.kw) THEN Outcome(h, 0)
    ELSE LET rotated == New(h, rotate(h[1], a.angle))
         IN  IF a.sid = 0 THEN Outcome(rotated.heap, 0)
             ELSE LET o == np_zeros_like(rotated.heap, rotated.ref)
                      m == CropPad(rescale(o.heap[rotated.ref],
                                           Magnification(a.sid, a.sdd)),
                                   o.heap[rotated.ref])
                  IN  IF m.exc # "none" \/ r.exc # "none" THEN Outcome(o.heap, 0)
                      ELSE LET I == New(WriteTo(o.heap, o.ref, m.val), r.pre)
                           IN  New(I.heap, r.val)

Obj_simulate_sinogram(h, a, r) ==
    IF ~Binds(Params_simulate_sinogram, a.kw) THEN Outcome(h, 0)
    ELSE LET mag == Obj_apply_magnification(h, 1, a.sid, a.sdd)
         IN  IF r.exc # "none" THEN Outcome(mag.heap, 0)
             ELSE New(mag.heap, r.val)

(***************************************************************************)
(* The order of the steps of each output mode.                             *)
(***************************************************************************)
\* simulate_projection: magnify, sum along the beam axis, physics chain
Steps_simulate_projection == <<"magnify", "sum", "physics">>

\* simulate_projection_angle: rotate, then magnify, then sum, then physics
Steps_simulate_projection_angle == <<"rotate", "magnify", "sum", "physics">>

\* simulate_xray_2d: rotate, magnify, cumulative sum, physics chain, clip
Steps_simulate_xray_2d == <<"rotate", "magnify", "sum", "physics", "clip">>

\* the sinogram in the order of the angled profile
Steps_simulate_sinogram_rotate_first == <<"rotate", "magnify", "sum", "physics", "clip">>

\* simulate_sinogram: magnify once, then radon (rotate and sum per angle),
\* then the physics chain on the whole array, then clip
Steps_simulate_sinogram == <<"magnify", "rotate", "sum", "physics", "clip">>

(***************************************************************************)
(* The breast phantom of src/ProjectFunctions/phantom.py.                  *)
(*                                                                         *)
(* The grid coordinates np.linspace(-1, 1, n) are kept in eighths, for the *)
(* sides n with (n - 1) dividing 16, so that every region test is an exact *)
(* comparison of integers.  A mu value is a constant or the adipose value  *)
(* with its thickness falloff, adipose_mu * (0.8 + 0.2 * exp(-e)), kept    *)
(* with its exponent e.                                                    *)
(***************************************************************************)
adipose_mu == Q(22, 100)

gland_mu == Q(40, 100)

lesion_mu == Q(75, 100)

micro_mu == Q(55, 100)

muscle_mu == Q(50, 100)

skin_mu == Q(80, 100)

\* (gland_mu + micro_mu) * 0.5
benign_mu == QMul(QAdd(gland_mu, micro_mu), Q(1, 2))

\* 8 * np.linspace(-1, 1, n)[i - 1]
Linspace8(i, n) == IF n = 1 THEN -8 ELSE -8 + (16 * (i - 1)) \div (n - 1)

\* a constant mu and the adipose mu at thickness exponent e
Const(q) == [kind |-> "const", v |-> q, e |-> QInt(0)]

Falloff(q, e) == [kind |-> "falloff", v |-> q, e |-> e]

\* (xx**2) / (0.9**2) + (yy**2) / (1.0**2) <= 1.0, at x = X/8, y = Y/8
breast_mask(X, Y) == 100 * X * X + 81 * Y * Y <= 5184

\* thickness = np.exp(-3.0 * (xx**2 + yy**2)): its exponent
ThicknessExponent(X, Y) == Q(3 * (X * X + Y * Y), 64)

\* np.abs((xx**2) / (0.92**2) + (yy**2) / (1.02**2) - 1.0) < 0.03
skin_rim(X, Y) ==
    LET d == Abs(1625625 * X * X + 1322500 * Y * Y - 88059456)
    IN  d < 3000000 /\ 100 * d < 3 * 88059456

\* (xx < -0.55) & (yy > -0.2) & (yy < 0.9) & ((yy + 0.9) > (xx + 0.2))
pec_mask(X, Y) ==
    /\ 5 * X < -22
    /\ 5 * Y > -8
    /\ 5 * Y < 36
    /\ 5 * (Y - X) > -28

\* the two ellipses of the glandular region
gland_mask(X, Y) ==
    \/ 144 * (5 * X + 6) * (5 * X + 6) + 3025 * Y * Y <= 69696
    \/ 100 * (5 * X + 2) * (5 * X + 2) + 81 * (5 * Y + 6) * (5 * Y + 6) <= 32400

\* the lesion disc, in pixel indices (0-based i, j): centre (nx // 2,
\* ny // 2 + 25), radius lesion_radius
lesion_mask(i, j, nx, ny, lesion_radius) ==
    (i - nx \div 2) * (i - nx \div 2) + (j - ny \div 2 - 25) * (j - ny \div 2 - 25)
        <= lesion_radius * lesion_radius

\* ((xx + 0.35) ** 2) / (0.12**2) + ((yy - 0.25) ** 2) / (0.08**2) <= 1.0
benign_mask(X, Y) ==
    1600 * (5 * X + 14) * (5 * X + 14) + 90000 * (Y - 2) * (Y - 2) <= 36864

\* spots placed from the state of numpy's global generator
default_rng_unseeded(seed, g) == g

\* np.random.default_rng(seed): a new generator whose state the seed alone
\* sets, whatever the state g of numpy's global generator
default_rng(seed, g) == seed % 16

\* one draw advances the generator (a linear congruential step stands in
\* for the library's PCG64)
RngStep(s) == (5 * s + 3) % 16

RECURSIVE RngAfter(_, _)
\* the generator's state after k draws from state s
RngAfter(s, k) == IF k = 0 THEN s ELSE RngAfter(RngStep(s), k - 1)

num_spots == 7

\* rng.normal(loc=[-0.1, 0.1], scale=0.18, size=(num_spots, 2)): the centre
\* of spot k (1-based), in eighths, from draws 2k - 1 and 2k, within two
\* eighths of the location
spot_center(rng, k) ==
    <<-1 + (RngAfter(rng, 2 * k - 1) % 5) - 2, 1 + (RngAfter(rng, 2 * k) % 5) - 2>>

\* spot_centers, the centres of the num_spots spots
spot_centers(rng) == {spot_center(rng, k) : k \in 1..num_spots}

\* (xx - sx) ** 2 + (yy - sy) ** 2 <= rad**2 for some spot: rad is at most
\* 0.04, less than half a grid step, so a spot holds the grid point at its
\* centre and no other
spot_mask(X, Y, centers) == <<X, Y>> \in centers

\* phantom[mask] = value
Assign(phantom, mask(_, _), value) ==
    [i \in 1..Len(phantom) |-> [j \in 1..Len(phantom[i]) |->
        IF mask(i, j) THEN value ELSE phantom[i][j]]]

\* phantom *= 0.8 + 0.2 * thickness
Thicken(phantom, nx, ny) ==
    [i \in 1..nx |-> [j \in 1..ny |->
        IF phantom[i][j].v.n = 0 THEN Const(QInt(0))
        ELSE Falloff(phantom[i][j].v,
                     ThicknessExponent(Linspace8(i, nx), Linspace8(j, ny)))]]

\* the layers in the order lesion, gland, ..., a lesion under the gland
LayeredPhantom_lesion_first(nx, ny, lesion_radius, rng) ==
    LET X(i) == Linspace8(i, nx)
        Y(j) == Linspace8(j, ny)
        InBreast(i, j) == breast_mask(X(i), Y(j))
        centers == spot_centers(rng)
        p0 == [i \in 1..nx |-> [j \in 1..ny |-> Const(adipose_mu)]]
        p1 == Assign(p0, LAMBDA i, j : ~InBreast(i, j), Const(QInt(0)))
        p2 == Thicken(p1, nx, ny)
        p3 == Assign(p2, LAMBDA i, j : skin_rim(X(i), Y(j)), Const(skin_mu))
        p4 == Assign(p3, LAMBDA i, j : pec_mask(X(i), Y(j)), Const(muscle_mu))
        p5 == Assign(p4, LAMBDA i, j : lesion_mask(i - 1, j - 1, nx, ny, lesion_radius),
                     Const(lesion_mu))
        p6 == Assign(p5, LAMBDA i, j : gland_mask(X(i), Y(j)) /\ InBreast(i, j),
                     Const(gland_mu))
        p7 == Assign(p6, LAMBDA i, j : spot_mask(X(i), Y(j), centers) /\ InBreast(i, j),
                     Const(micro_mu))
    IN  Assign(p7, LAMBDA i, j : benign_mask(X(i), Y(j)) /\ InBreast(i, j),
               Const(benign_mu))

\* the uncompressed mu-map: the layers written one over the other in the
\* order of the statements of create_breast_phantom
LayeredPhantom(nx, ny, lesion_radius, rng) ==
    LET X(i) == Linspace8(i, nx)
        Y(j) == Linspace8(j, ny)
        InBreast(i, j) == breast_mask(X(i), Y(j))
        centers == spot_centers(rng)
        p0 == [i \in 1..nx |-> [j \in 1..ny |-> Const(adipose_mu)]]
        p1 == Assign(p0, LAMBDA i, j : ~InBreast(i, j), Const(QInt(0)))
        p2 == Thicken(p1, nx, ny)
        p3 == Assign(p2, LAMBDA i, j : skin_rim(X(i), Y(j)), Const(skin_mu))
        p4 == Assign(p3, LAMBDA i, j : pec_mask(X(i), Y(j)), Const(muscle_mu))
        p5 == Assign(p4, LAMBDA i, j : gland_mask(X(i), Y(j)) /\ InBreast(i, j),
                     Const(gland_mu))
        p6 == Assign(p5, LAMBDA i, j : lesion_mask(i - 1, j - 1, nx, ny, lesion_radius),
                     Const(lesion_mu))
        p7 == Assign(p6, LAMBDA i, j : spot_mask(X(i), Y(j), centers) /\ InBreast(i, j),
                     Const(micro_mu))
    IN  Assign(p7, LAMBDA i, j : benign_mask(X(i), Y(j)) /\ InBreast(i, j),
               Const(benign_mu))

\* info["lesion_mask"]
LesionMask(nx, ny, lesion_radius) ==
    [i \in 1..nx |-> [j \in 1..ny |-> lesion_mask(i - 1, j - 1, nx, ny, lesion_radius)]]

\* the whole breast taken as background
BackgroundMask_whole_breast(nx, ny, lesion_radius) ==
    [i \in 1..nx |-> [j \in 1..ny |->
        breast_mask(Linspace8(i, nx), Linspace8(j, ny))]]

\* info["background_mask"] = breast_mask & (~lesion_mask)
BackgroundMask(nx, ny, lesion_radius) ==
    [i \in 1..nx |-> [j \in 1..ny |->
        /\ breast_mask(Linspace8(i, nx), Linspace8(j, ny))
        /\ ~lesion_mask(i - 1, j - 1, nx, ny, lesion_radius)]]

\* the info dict of the uncompressed phantom
Info(lesion, background) ==
    [adipose_mu |-> adipose_mu, gland_mu |-> gland_mu, lesion_mu |-> lesion_mu,
     lesion_mask |-> lesion, background_mask |-> background]

\* comp_nx = max(1, int(nx * factor)), factor a positive rational
comp_nx(nx, factor) == Max(1, (nx * factor.n) \div factor.d)

\* the odd remainder row put on top
pad_top_ceil(nx, cnx) == (nx - cnx + 1) \div 2

\* pad_top = (nx - comp_nx) // 2
pad_top(nx, cnx) == (nx - cnx) \div 2

\* pad_bottom = nx - comp_nx - pad_top
pad_bottom(nx, cnx) == nx - cnx - pad_top(nx, cnx)

\* the position in the input rows (0-based, as a fraction num/den over the
\* row lower) that output row o (0-based) of resize samples:
\* (o + 0.5) * nx / cnx - 0.5
ResizeLower(o, nx, cnx) == ((2 * o + 1) * nx - cnx) \div (2 * cnx)

ResizeFrac(o, nx, cnx) == ((2 * o + 1) * nx - cnx) % (2 * cnx)

\* resize(phantom, (comp_nx, ny), anti_aliasing=True, preserve_range=True)
\* of the mu-map: comp_nx rows, each the nearest input row
resize_rows(phantom, cnx) ==
    LET nx == Len(phantom)
    IN  [o \in 1..cnx |->
            phantom[Clamp(ResizeLower(o - 1, nx, cnx)
                          + (IF ResizeFrac(o - 1, nx, cnx) > cnx THEN 2 ELSE 1), 1, nx)]]

\* resize(mask.astype(float), (comp_nx, ny), anti_aliasing=False,
\* preserve_range=True) > 0.5: the linear interpolation (1 - t) * lo + t * hi
\* of the two rows around the sampled position, t = frac / (2 * cnx)
resize_mask(mask, cnx) ==
    LET nx == Len(mask)
    IN  [o \in 1..cnx |-> [j \in 1..Len(mask[1]) |->
            LET lo == mask[Clamp(ResizeLower(o - 1, nx, cnx) + 1, 1, nx)][j]
                hi == mask[Clamp(ResizeLower(o - 1, nx, cnx) + 2, 1, nx)][j]
                frac == ResizeFrac(o - 1, nx, cnx)
            IN  \/ lo /\ hi
                \/ lo /\ frac < cnx
                \/ hi /\ frac > cnx]]

\* np.pad(a, ((top, bottom), (0, 0)), mode="edge")
np_pad(a, top, bottom, zero) ==
    [i \in 1..(top + Len(a) + bottom) |-> a[Clamp(i - top, 1, Len(a))]]

\* compress_mask(mask) of _compress_phantom
compress_mask(mask, cnx, top, bottom) ==
    np_pad(resize_mask(mask, cnx), top, bottom, FALSE)

\* comp_info taken to be info itself
dict_copy_same_object(h, info) == Outcome(h, info)

\* comp_info = info.copy(): a new dict with info's entries
dict_copy(h, info) == New(h, h[info])

\* _compress_phantom(phantom, info, factor): the pair (compressed, comp_info)
_compress_phantom(phantom, info, factor) ==
    LET nx == NX(phantom)
        cnx == comp_nx(nx, factor)
        top == pad_top(nx, cnx)
        bottom == pad_bottom(nx, cnx)
        compressed == np_pad(resize_rows(phantom, cnx), top, bottom, Const(QInt(0)))
        comp_info ==
            [adipose_mu |-> info.adipose_mu, gland_mu |-> info.gland_mu,
             lesion_mu |-> info.lesion_mu,
             lesion_mask |-> compress_mask(info.lesion_mask, cnx, top, bottom),
             background_mask |-> compress_mask(info.background_mask, cnx, top, bottom),
             compressed |-> TRUE, compression_factor |-> factor]
    IN  [phantom |-> compressed, info |-> comp_info]

\* _compress_phantom on the objects phantom and info (a dict whose masks are
\* the arrays it holds): comp_info is a copy, its entries are set in place
Obj_compress_phantom(h, phantom, info, factor) ==
    LET r == _compress_phantom(h[phantom], h[info], factor)
        compressed == New(h, r.phantom)
        comp_info == dict_copy(compressed.heap, info)
    IN  Outcome(WriteTo(comp_info.heap, comp_info.ref, r.info),
                <<compressed.ref, comp_info.ref>>)

\* create_breast_phantom(nx, ny, lesion_radius, compression,
\* compression_factor), called when numpy's global generator is in state g:
\* the pair (phantom, info)
create_breast_phantom(a, g) ==
    LET rng == default_rng(42, g)
        phantom == LayeredPhantom(a.nx, a.ny, a.lesion_radius, rng)
        info == Info(LesionMask(a.nx, a.ny, a.lesion_radius),
                     BackgroundMask(a.nx, a.ny, a.lesion_radius))
    IN  IF a.compression THEN _compress_phantom(phantom, info, a.compression_factor)
        ELSE [phantom |-> phantom, info |-> info]

(***************************************************************************)
(* The window of src/gui.py.                                               *)
(***************************************************************************)
\* the stops of the sliders the user moves them to: minimum, initial value
\* and maximum of each
AngleStops == {0, 30, 180}

SidStops == {200, 500, 1200}

SddStops == {400, 1000, 1600}

\* a kVp slider whose minimum is 0
KvpStops_from_zero == {0, 30, 120}

KvpStops == {20, 30, 120}

ExpStops == {1, 100, 300}

FiltStops == {0, 2, 10}

SliderStops ==
    [angle_slider |-> AngleStops, sid_slider |-> SidStops, sdd_slider |-> SddStops,
     kvp_slider |-> KvpStops, exp_slider |-> ExpStops, filt_slider |-> FiltStops]

\* the items of view_selector
ViewModes == {"X-ray Projection", "Sinogram"}

\* the info record create_breast_phantom returned together with a mu-map:
\* (breast_base, breast_info), (breast_compressed, breast_info_compressed)
InfoOf(image) ==
    CASE image = "breast_base" -> "breast_info"
      [] image = "breast_compressed" -> "breast_info_compressed"
      [] OTHER -> "None"

\* use_breast and use_compression of update_projection
use_breast(w) == w.breast_toggle

use_compression(w) == IF use_breast(w) THEN w.compress_toggle ELSE FALSE

\* phantom of update_projection: the mu-map shown
SelectedPhantom(w) ==
    IF use_breast(w)
    THEN IF use_compression(w) THEN "breast_compressed" ELSE "breast_base"
    ELSE "phantom"

\* the masks taken from the uncompressed phantom whatever is shown
SelectedInfo_uncompressed(w) ==
    IF use_breast(w) THEN "breast_info" ELSE "None"

\* phantom_info of update_projection: the info record of the mu-map shown
SelectedInfo(w) ==
    IF use_breast(w)
    THEN IF use_compression(w) THEN "breast_info_compressed" ELSE "breast_info"
    ELSE "None"

\* exposure, grid_ratio, closer_sid and angle_var_deg of update_projection
gui_exposure(w) == Q(w.exp_slider, 100)

gui_grid_ratio(w) == IF w.grid_toggle THEN Q(75, 100) ELSE QInt(1)

gui_closer_sid(w) == Max(100, (w.sid_slider * 7) \div 10)

gui_angle_var_deg(w) == Max(5, w.angle_slider)

\* the image and the profiles of update_projection: the calls of the
\* pipeline return for positive kVp, SID and SDD, grid_ratio included
PipelineReturns(w) ==
    /\ w.kvp_slider > 0 /\ w.sid_slider > 0 /\ w.sdd_slider > 0
    /\ gui_closer_sid(w) > 0

\* a call of a function of the pipeline with the parameters the window
\* passes; angle is 0 for simulate_projection, which takes none
PipelineCall(fn, image, angle, sid, w) ==
    [fn |-> fn, phantom |-> image, angle |-> angle, sid |-> sid,
     sdd |-> w.sdd_slider, kVp |-> w.kvp_slider, I0 |-> QInt(1),
     exposure_time |-> gui_exposure(w), filtration_mmAl |-> w.filt_slider,
     grid_ratio |-> gui_grid_ratio(w)]

\* the first call of update_projection: the image of the view mode
ImageCall(w) ==
    PipelineCall(IF w.view_selector = "X-ray Projection" THEN "simulate_xray_2d"
                 ELSE "simulate_sinogram",
                 SelectedPhantom(w), w.angle_slider, w.sid_slider, w)

\* the calls of the pipeline of update_projection, in order: the image,
\* the baseline profile, the profiles at the closer SID, of the denser
\* phantom and at the tilt, and for the breast phantom the native and the
\* compressed profile
PipelineCalls(w) ==
    <<ImageCall(w),
      PipelineCall("simulate_projection", SelectedPhantom(w), 0, w.sid_slider, w),
      PipelineCall("simulate_projection", SelectedPhantom(w), 0, gui_closer_sid(w), w),
      PipelineCall("simulate_projection", "dense_phantom", 0, w.sid_slider, w),
      PipelineCall("simulate_projection_angle", SelectedPhantom(w),
                   gui_angle_var_deg(w), w.sid_slider, w)>>
    \o (IF use_breast(w)
        THEN <<PipelineCall("simulate_projection", "breast_base", 0, w.sid_slider, w),
               PipelineCall("simulate_projection", "breast_compressed", 0,
                            w.sid_slider, w)>>
        ELSE <<>>)

\* a call roi_mean_std(image, info[key])
RoiCall(image, info, key) == [image |-> image, info |-> info, key |-> key]

\* the calls of roi_mean_std of update_projection, in order
RoiCalls(w) ==
    IF use_breast(w)
    THEN <<RoiCall(SelectedPhantom(w), SelectedInfo(w), "lesion_mask"),
           RoiCall(SelectedPhantom(w), SelectedInfo(w), "background_mask"),
           RoiCall("breast_base", "breast_info", "lesion_mask"),
           RoiCall("breast_base", "breast_info", "background_mask"),
           RoiCall("breast_compressed", "breast_info_compressed", "lesion_mask"),
           RoiCall("breast_compressed", "breast_info_compressed", "background_mask")>>
    ELSE <<>>

\* update_projection on the window w: the window it leaves
update_projection(w) ==
    IF ~PipelineReturns(w)
    THEN [w EXCEPT !.pipeline_calls = <<ImageCall(w)>>, !.roi_calls = <<>>]
    ELSE [w EXCEPT !.shown = SelectedPhantom(w),
                   !.pipeline_calls = PipelineCalls(w),
                   !.roi_calls = RoiCalls(w),
                   !.roi_stats = IF use_breast(w) THEN "Current ROI"
                                 ELSE "ROI stats: N/A (toggle breast phantom)",
                   !.phantom_info = IF use_breast(w)
                                    THEN "Phantom mu: adipose 0.22, gland 0.40, lesion 0.75"
                                    ELSE "Phantom: Shepp-Logan (no labeled ROIs)"]

\* the window XrayGUI() builds: widgets at their initial values, then the
\* first update_projection
XrayGUI ==
    update_projection(
        [angle_slider |-> 30, sid_slider |-> 500, sdd_slider |-> 1000,
         kvp_slider |-> 30, exp_slider |-> 100, filt_slider |-> 2,
         view_selector |-> "X-ray Projection",
         breast_toggle |-> TRUE, compress_toggle |-> FALSE, grid_toggle |-> FALSE,
         shown |-> "none", pipeline_calls |-> <<>>, roi_calls |-> <<>>,
         roi_stats |-> "ROI stats: N/A",
         phantom_info |-> "Phantom mu: adipose 0.22, gland 0.40, lesion 0.75"])

(***************************************************************************)
(* The callers' inputs.                                                    *)
(***************************************************************************)
\* a mu-map of shape (nx, ny): all zero (air), uniform 1/2, or a ramp over
\* the values 0, 1/2, 1
PhantomOf(nx, ny, k) ==
    [i \in 1..nx |-> [j \in 1..ny |->
        IF k = 0 THEN QInt(0)
        ELSE IF k = 1 THEN Q(1, 2)
        ELSE Q((i + 2 * j) % 3, 2)]]

Phantoms(maxdim) ==
    {PhantomOf(nx, ny, k) : nx \in 1..maxdim, ny \in 1..maxdim, k \in 0..2}

\* (sid, sdd) pairs of the pipeline calls: M = 2, 1/2, 1 and a zero SID
PipeGeometry == {<<500, 1000>>, <<1000, 500>>, <<500, 500>>, <<0, 1000>>}

\* (sid, sdd) pairs of the calls of the magnification alone
MagGeometry == {200, 500, 1000, 1200} \X {400, 500, 1000, 1600}

KvpValues == {-30, 0, 30, 60}

ExposureValues == {Q(1, 2), QInt(1), QInt(2)}

FiltrationValues == {QInt(0), QInt(2)}

\* the keyword arguments a call passes beyond the ones every def has
KwProfile == {{}, {"grid_ratio"}}

KwSinogram == {{}, {"grid_ratio"}, {"angle_step_deg"}}

Args(phantom, angle, max_angle, g, kVp, exposure, filtration, kw) ==
    [phantom |-> phantom, angle |-> angle, max_angle |-> max_angle,
     I0 |-> QInt(1), sid |-> g[1], sdd |-> g[2], kVp |-> kVp,
     exposure |-> exposure, filtration |-> filtration, kw |-> kw,
     angle_step |-> 1,
     grid_ratio |-> IF "grid_ratio" \in kw THEN Q(3, 4) ELSE QInt(1)]

\* the grid sides of the phantoms built: n - 1 divides 16
GridSides == {2, 5, 9, 17}

\* lesion_radius: no lesion, lesions that reach into the small grids (the
\* lesion's centre lies 25 pixels off the grid's centre), the default 25
LesionRadii == {0, 22, 25, 30}

\* compression_factor, in (0, 1]; 0.65 is the default
CompressionFactors == {Q(1, 5), Q(1, 2), Q(65, 100), Q(3, 4), QInt(1)}

\* a mu-map of nx rows handed to _compress_phantom alone
RowPhantom(nx, ny) == [i \in 1..nx |-> [j \in 1..ny |-> Const(Q(i, 10))]]

\* a mask whose true pixels are the rows lo..hi
RowMask(nx, ny, lo, hi) == [i \in 1..nx |-> [j \in 1..ny |-> i >= lo /\ i <= hi]]

\* the angles of the calls of rotate_image_nn
RotationAngles == {-720, -360, 0, 45, 90, 360}

\* the calls that return one array
ArrayCalls ==
    {"magnify", "magnify_nn", "rotate_nn", "profile", "angled_profile",
     "radiograph", "sinogram"}

\* the caller can write into the array a (it has a first element)
Writable(o, a) ==
    /\ Len(a) >= 1
    /\ o \notin {"profile", "angled_profile"} => Len(a[1]) >= 1

\* the array a after the caller's write of -1 into its first element
Poke(o, a) ==
    IF o \in {"profile", "angled_profile"} THEN [a EXCEPT ![1] = QInt(-1)]
    ELSE [a EXCEPT ![1][1] = QInt(-1)]

NoArgs == Args(<<>>, 0, 0, <<500, 1000>>, 30, QInt(1), QInt(0), {})

NoResult == Failed("none")

(***************************************************************************)
(* The state machine: a caller makes one call at a time.                   *)
(***************************************************************************)
Init ==
    /\ pc = "idle"
    /\ op = "none"
    /\ args = NoArgs
    /\ res = NoResult
    /\ heap = <<>>
    /\ out = 0
    /\ trace = <<>>
    /\ np_random = 0
    /\ gui = XrayGUI

\* a call of _apply_magnification(image, sid, sdd)
Magnify ==
    /\ pc = "idle"
    /\ \E image \in Phantoms(MaxDim), g \in MagGeometry :
         LET m == _apply_magnification(image, g[1], g[2])
             o == Obj_apply_magnification(<<image>>, 1, g[1], g[2])
         IN  /\ args' = Args(image, 0, 0, g, 30, QInt(1), QInt(0), {})
             /\ res' = Result(m.exc, m.val, <<>>, <<>>, <<>>, <<>>, <<>>)
             /\ heap' = o.heap
             /\ out' = o.ref
    /\ op' = "magnify"
    /\ pc' = "done"
    /\ trace' = <<"magnify">>
    /\ UNCHANGED <<np_random, gui>>

\* a call of apply_magnification(phantom, sid, sdd) of utils.py
MagnifyNN ==
    /\ pc = "idle"
    /\ \E image \in Phantoms(MaxDim), g \in MagGeometry :
         LET m == apply_magnification(image, g[1], g[2])
             o == Obj_utils_apply_magnification(<<image>>, 1, g[1], g[2])
         IN  /\ args' = Args(image, 0, 0, g, 30, QInt(1), QInt(0), {})
             /\ res' = Result(m.exc, m.val, <<>>, <<>>, <<>>, <<>>, <<>>)
             /\ heap' = o.heap
             /\ out' = o.ref
    /\ op' = "magnify_nn"
    /\ pc' = "done"
    /\ trace' = <<"magnify">>
    /\ UNCHANGED <<np_random, gui>>

\* a call of rotate_image_nn(image, theta_deg) of utils.py
RotateNN ==
    /\ pc = "idle"
    /\ \E image \in Phantoms(MaxDim), theta_deg \in RotationAngles :
         LET o == Obj_rotate_image_nn(<<image>>, 1, theta_deg)
         IN  /\ args' = Args(image, theta_deg, 0, <<500, 500>>, 30, QInt(1), QInt(0), {})
             /\ res' = Result("none", rotate_image_nn(image, theta_deg),
                              <<>>, <<>>, <<>>, <<>>, <<>>)
             /\ heap' = o.heap
             /\ out' = o.ref
    /\ op' = "rotate_nn"
    /\ pc' = "done"
    /\ trace' = <<"rotate">>
    /\ UNCHANGED <<np_random, gui>>

\* a call of simulate_projection: the 1D profile
Profile ==
    /\ pc = "idle"
    /\ \E phantom \in Phantoms(MaxPipeDim), g \in PipeGeometry, kVp \in KvpValues,
          e \in ExposureValues, f \in FiltrationValues, kw \in KwProfile :
         /\ args' = Args(phantom, 0, 0, g, kVp, e, f, kw)
         /\ res' = simulate_projection(args')
         /\ LET o == Obj_simulate_projection(<<phantom>>, args', res')
            IN  heap' = o.heap /\ out' = o.ref
    /\ op' = "profile"
    /\ pc' = "done"
    /\ trace' = Steps_simulate_projection
    /\ UNCHANGED <<np_random, gui>>

\* a call of simulate_projection_angle: the 1D profile at an angle
ProfileAngle ==
    /\ pc = "idle"
    /\ \E phantom \in Phantoms(MaxPipeDim), angle \in {0, 90}, g \in PipeGeometry,
          kVp \in KvpValues, e \in ExposureValues, f \in FiltrationValues,
          kw \in KwProfile :
         /\ args' = Args(phantom, angle, 0, g, kVp, e, f, kw)
         /\ res' = simulate_projection_angle(args')
         /\ LET o == Obj_simulate_projection_angle(<<phantom>>, args', res')
            IN  heap' = o.heap /\ out' = o.ref
    /\ op' = "angled_profile"
    /\ pc' = "done"
    /\ trace' = Steps_simulate_projection_angle
    /\ UNCHANGED <<np_random, gui>>

\* a call of simulate_xray_2d: the 2D radiograph
Radiograph ==
    /\ pc = "idle"
    /\ \E phantom \in Phantoms(MaxPipeDim), angle \in {0, 90}, g \in PipeGeometry,
          kVp \in KvpValues, e \in ExposureValues, f \in FiltrationValues,
          kw \in KwProfile :
         /\ args' = Args(phantom, angle, 0, g, kVp, e, f, kw)
         /\ res' = simulate_xray_2d(args')
         /\ LET o == Obj_simulate_xray_2d(<<phantom>>, args', res')
            IN  heap' = o.heap /\ out' = o.ref
    /\ op' = "radiograph"
    /\ pc' = "done"
    /\ trace' = Steps_simulate_xray_2d
    /\ UNCHANGED <<np_random, gui>>

\* a call of simulate_sinogram
Sinogram ==
    /\ pc = "idle"
    /\ \E phantom \in Phantoms(MaxPipeDim), max_angle \in (-2)..MaxAngle,
          g \in PipeGeometry, kVp \in KvpValues, e \in ExposureValues,
          f \in FiltrationValues, kw \in KwSinogram :
         /\ args' = Args(phantom, 0, max_angle, g, kVp, e, f, kw)
         /\ res' = simulate_sinogram(args')
         /\ LET o == Obj_simulate_sinogram(<<phantom>>, args', res')
            IN  heap' = o.heap /\ out' = o.ref
    /\ op' = "sinogram"
    /\ pc' = "done"
    /\ trace' = Steps_simulate_sinogram
    /\ UNCHANGED <<np_random, gui>>

\* the caller writes into the array it was returned: result[0] = -1 for a
\* profile, result[0, 0] = -1 for an image
WriteResult ==
    /\ pc = "done"
    /\ op \in ArrayCalls
    /\ out # 0
    /\ Writable(op, heap[out])
    /\ heap' = [heap EXCEPT ![out] = Poke(op, @)]
    /\ pc' = "written"
    /\ UNCHANGED <<op, args, res, out, trace, np_random, gui>>

\* the caller has the result and is ready for its next call
Return ==
    /\ pc \in {"done", "written"}
    /\ pc' = "idle"
    /\ op' = "none"
    /\ args' = NoArgs
    /\ res' = NoResult
    /\ heap' = <<>>
    /\ out' = 0
    /\ trace' = <<>>
    /\ UNCHANGED <<np_random, gui>>

\* a call of create_breast_phantom
CreateBreastPhantom ==
    /\ pc = "idle"
    /\ \E nx \in GridSides, ny \in GridSides, lesion_radius \in LesionRadii,
          compression \in BOOLEAN, factor \in CompressionFactors :
         /\ compression \/ factor = Q(65, 100)
         /\ args' = [nx |-> nx, ny |-> ny, lesion_radius |-> lesion_radius,
                     compression |-> compression, compression_factor |-> factor]
         /\ res' = create_breast_phantom(args', np_random)
         /\ heap' = <<res'.phantom, res'.info>>
    /\ out' = <<1, 2>>
    /\ op' = "create_breast_phantom"
    /\ pc' = "done"
    /\ trace' = <<>>
    /\ UNCHANGED <<np_random, gui>>

\* a call of _compress_phantom(phantom, info, factor) on a mu-map of any
\* number of rows
CompressPhantom ==
    /\ pc = "idle"
    /\ \E nx \in 1..MaxRows, ny \in {1, 2}, lo \in 1..MaxRows, hi \in 0..MaxRows,
          factor \in CompressionFactors :
         /\ lo <= nx /\ hi <= nx /\ lo <= hi + 1
         /\ LET phantom == RowPhantom(nx, ny)
                info == Info(RowMask(nx, ny, lo, hi),
                             RowMask(nx, ny, hi + 1, nx))
                o == Obj_compress_phantom(<<phantom, info>>, 1, 2, factor)
            IN  /\ args' = [phantom |-> phantom, info |-> info,
                            compression_factor |-> factor]
                /\ res' = _compress_phantom(phantom, info, factor)
                /\ heap' = o.heap
                /\ out' = o.ref
    /\ op' = "compress"
    /\ pc' = "done"
    /\ trace' = <<>>
    /\ UNCHANGED <<np_random, gui>>

\* some other code draws from numpy's global generator
UseGlobalRandom ==
    /\ pc = "idle"
    /\ np_random # RngAfter(0, MaxGlobalDraws)
    /\ np_random' = RngStep(np_random)
    /\ UNCHANGED <<pc, op, args, res, heap, out, trace, gui>>

Next ==
    \/ Magnify \/ MagnifyNN \/ RotateNN
    \/ Profile \/ ProfileAngle \/ Radiograph \/ Sinogram
    \/ CompressPhantom
    \/ WriteResult \/ Return

\* the phantom builder and the other users of random numbers
NextPhantom == CreateBreastPhantom \/ CompressPhantom \/ UseGlobalRandom \/ Return

SpecPhantom == Init /\ [][NextPhantom]_vars

\* the user moves a slider to another stop: valueChanged calls
\* update_projection
MoveSlider ==
    /\ \E s \in DOMAIN SliderStops : \E v \in SliderStops[s] :
         /\ v # gui[s]
         /\ gui' = update_projection([gui EXCEPT ![s] = v])
    /\ UNCHANGED <<pc, op, args, res, heap, out, trace, np_random>>

\* the user picks the other view mode: currentIndexChanged calls
\* update_projection
SelectView ==
    /\ \E v \in ViewModes :
         /\ v # gui.view_selector
         /\ gui' = update_projection([gui EXCEPT !.view_selector = v])
    /\ UNCHANGED <<pc, op, args, res, heap, out, trace, np_random>>

\* the user clicks a checkbox: stateChanged calls update_projection
ToggleBreast ==
    /\ gui' = update_projection([gui EXCEPT !.breast_toggle = ~@])
    /\ UNCHANGED <<pc, op, args, res, heap, out, trace, np_random>>

ToggleCompression ==
    /\ gui' = update_projection([gui EXCEPT !.compress_toggle = ~@])
    /\ UNCHANGED <<pc, op, args, res, heap, out, trace, np_random>>

ToggleGrid ==
    /\ gui' = update_projection([gui EXCEPT !.grid_toggle = ~@])
    /\ UNCHANGED <<pc, op, args, res, heap, out, trace, np_random>>

NextGui == MoveSlider \/ SelectView \/ ToggleBreast \/ ToggleCompression \/ ToggleGrid

SpecGui == Init /\ [][NextGui]_vars

Spec == Init /\ [][Next]_vars

\* every comparison np.clip makes is decided by the bounds of exp
ClipDecided ==
    pc = "done" /\ res.exc = "none" /\ op \in {"radiograph", "sinogram"} =>
        \A i \in 1..Len(res.pre) : \A j \in 1..Len(res.pre[i]) : Decided(res.pre[i][j])

(***************************************************************************)
(* Vocabulary of the properties.                                           *)
(***************************************************************************)
Modes == {"profile", "angled_profile", "radiograph", "sinogram"}

\* the modes whose result is a 1D profile
ProfileModes == {"profile", "angled_profile"}

\* the call of mode o with the arguments a
Call(o, a) ==
    CASE o = "profile" -> simulate_projection(a)
      [] o = "angled_profile" -> simulate_projection_angle(a)
      [] o = "radiograph" -> simulate_xray_2d(a)
      [] o = "sinogram" -> simulate_sinogram(a)

\* a 1D profile seen as an array of one row, a 2D array as it is
Rows(o, x) == IF o \in ProfileModes THEN <<x>> ELSE x

\* the arguments satisfy kVp > 0, SID > 0, SDD > 0
ValidParams(a) == a.kVp > 0 /\ a.sid > 0 /\ a.sdd > 0

\* a value of [0, 1]
InUnit(v) == v.c.n >= 0 /\ AtMost1(v)

QScale(q, v) == Val(QMul(q, v.c), v.e)

SameShape(a, b) == NX(a) = NX(b) /\ NY(a) = NY(b)

\* the projection row of the sinogram for one angle: the radon column of
\* the magnified phantom at that angle through the physics chain and clip
ProjectionAt(a, angle) ==
    LET mag == _apply_magnification(a.phantom, a.sid, a.sdd)
        col == SumAxis0(RadonRotate(RadonPad(mag.val), angle))
        T(p) == Clip01(_apply_exposure(BeerLambert(QInt(1),
                    _apply_filtration(_apply_energy_scaling(p, a.kVp),
                                      a.filtration, a.kVp)), a.exposure))
    IN  Map1(T, col)

(***************************************************************************)
(* C1.  For max_angle > 0 and step > 0 simulate_sinogram returns the       *)
(* angles 0, step, 2*step, ... up to max_angle (floor(max_angle/step)+1    *)
(* of them, none above max_angle) and an image of one row per angle, row i *)
(* holding the projection for the i-th angle.                              *)
(* Stated as claimed; the code returns radon's array of one row per        *)
(* detector position and one column per angle, and has no step parameter.  *)
(***************************************************************************)
C1_SinogramRowsAreAngles ==
    (/\ pc = "done" /\ op = "sinogram"
     /\ args.max_angle > 0 /\ args.angle_step > 0
     /\ ValidParams(args) /\ args.kw \subseteq {"angle_step_deg"})
    => /\ res.exc = "none"
       /\ res.angles = [i \in 1..((args.max_angle \div args.angle_step) + 1) |->
                           (i - 1) * args.angle_step]
       /\ \A i \in 1..Len(res.angles) : res.angles[i] <= args.max_angle
       /\ Len(res.val) = Len(res.angles)
       /\ \A i \in 1..Len(res.val) : res.val[i] = ProjectionAt(args, res.angles[i])

(***************************************************************************)
(* C2.  For max_angle <= 0 simulate_sinogram raises nothing and returns a  *)
(* sinogram of exactly one row, computed at angle 0, with the angles [0].  *)
(* Stated as claimed; the code builds np.arange(0, max_angle + 1, 1),      *)
(* which is empty for max_angle <= -1.                                     *)
(***************************************************************************)
C2_DegenerateSinogramOneRow ==
    (/\ pc = "done" /\ op = "sinogram"
     /\ args.max_angle <= 0
     /\ ValidParams(args) /\ args.kw = {})
    => /\ res.exc = "none"
       /\ res.angles = <<0>>
       /\ Len(res.val) = 1
       /\ res.val[1] = ProjectionAt(args, 0)

(***************************************************************************)
(* C3.  A profile, radiograph or sinogram call with kVp <= 0, SID <= 0 or  *)
(* SDD <= 0 ends in an error reported to the caller and returns no         *)
(* intensity array.                                                        *)
(* Stated as claimed; the code validates nothing, and only a zero kVp or   *)
(* SID stops the call (Python's ZeroDivisionError).                        *)
(***************************************************************************)
C3_InvalidParameterSignalled ==
    (/\ pc = "done" /\ op \in Modes
     /\ ~ValidParams(args))
    => res.exc # "none"

(***************************************************************************)
(* C4.  For kVp > 0, SID > 0, SDD > 0 simulate_xray_2d returns a 2D image  *)
(* of exactly the shape of the input mu-map whose values all lie in [0,1]. *)
(***************************************************************************)
C4_RadiographShapeAndRange ==
    (/\ pc = "done" /\ op = "radiograph"
     /\ ValidParams(args) /\ args.kw = {})
    => /\ res.exc = "none"
       /\ SameShape(res.val, args.phantom)
       /\ \A i \in 1..Len(res.val) : \A j \in 1..Len(res.val[i]) :
              InUnit(res.val[i][j])

\* a radiograph of a non-square mu-map in which np.clip brought a value
\* above 1 down to 1 and left another value, strictly inside (0, 1), alone
C4_Witness ==
    /\ pc = "done" /\ op = "radiograph" /\ res.exc = "none"
    /\ ValidParams(args) /\ args.kw = {}
    /\ NX(args.phantom) # NY(args.phantom)
    /\ \E i \in 1..Len(res.pre) : \E j \in 1..Len(res.pre[i]) :
          Exceeds1(res.pre[i][j]) /\ res.val[i][j] = Val(QInt(1), QInt(0))
    /\ \E i \in 1..Len(res.pre) : \E j \in 1..Len(res.pre[i]) :
          res.val[i][j] = res.pre[i][j] /\ res.val[i][j].e.n > 0

(***************************************************************************)
(* C5.  Profile, radiograph and sinogram each accept a grid_ratio          *)
(* parameter and multiply the intensity by it after the exposure step: a   *)
(* call that passes grid_ratio succeeds and its pre-clip result is         *)
(* grid_ratio times the result for grid_ratio = 1.                         *)
(* Stated as claimed; no def has a grid_ratio parameter, so the call ends  *)
(* in a TypeError.                                                         *)
(***************************************************************************)
C5_GridRatioScalesIntensity ==
    (/\ pc = "done" /\ op \in Modes
     /\ ValidParams(args) /\ args.kw = {"grid_ratio"})
    => /\ res.exc = "none"
       /\ LET base == Rows(op, Call(op, [args EXCEPT !.kw = {}]).pre)
              got == Rows(op, res.pre)
          IN  /\ Len(got) = Len(base)
              /\ \A i \in 1..Len(base) : \A j \in 1..Len(base[i]) :
                     got[i][j] = QScale(args.grid_ratio, base[i][j])

(***************************************************************************)
(* C6.  The energy step, per mode.                                         *)
(***************************************************************************)
\* the path integral before the energy step, after it, and after filtration
PathOf(o, r) == Rows(o, r.P)

ScaledOf(o, r) == Rows(o, r.Ps)

CorrectedOf(o, r) == Rows(o, r.Pc)

\* every entry of the scaled path integral is P * (ref / kVp)
ScaledBy(ref) ==
    LET P == PathOf(op, res)
        Ps == ScaledOf(op, res)
    IN  /\ Len(Ps) = Len(P)
        /\ \A i \in 1..Len(P) : \A j \in 1..Len(P[i]) :
               Ps[i][j] = QMul(P[i][j], Q(ref, args.kVp))

\* at every larger kVp the same call has a strictly smaller scaled path
\* integral wherever P > 0, and the same P
StrictlyDecreasingInKvp ==
    \A k2 \in {k \in KvpValues : k > args.kVp} :
        LET r2 == Call(op, [args EXCEPT !.kVp = k2])
            P == PathOf(op, res)
            Ps == ScaledOf(op, res)
            Ps2 == ScaledOf(op, r2)
        IN  /\ PathOf(op, r2) = P
            /\ \A i \in 1..Len(P) : \A j \in 1..Len(P[i]) :
                   P[i][j].n > 0 => QLt(Ps2[i][j], Ps[i][j])

\* a call of a mode that returned, with valid parameters
Returned(o) ==
    /\ pc = "done" /\ op = o /\ res.exc = "none" /\ ValidParams(args)

\* C6 as claimed: in every mode the path integral is scaled by exactly
\* 30 / kVp, so it equals P at kVp = 30 and strictly decreases in kVp.
C6_EnergyScale30EveryMode ==
    \A o \in Modes : Returned(o) =>
        /\ ScaledBy(30)
        /\ (args.kVp = 30 => ScaledOf(op, res) = PathOf(op, res))
        /\ StrictlyDecreasingInKvp

\* C6 amended: the profiles and the sinogram scale the path integral by exactly
\* 30 / kVp (it equals P at kVp = 30), the radiograph scales it by exactly
\* 40 / kVp (4/3 of P at kVp = 30); in every mode, for fixed P > 0, a larger
\* positive kVp gives a strictly smaller scaled path integral.
C6_EnergyScaleByMode ==
    /\ \A o \in ProfileModes \cup {"sinogram"} : Returned(o) =>
           /\ ScaledBy(30)
           /\ (args.kVp = 30 => ScaledOf(op, res) = PathOf(op, res))
           /\ StrictlyDecreasingInKvp
    /\ Returned("radiograph") =>
           /\ ScaledBy(40)
           /\ StrictlyDecreasingInKvp

\* a radiograph at kVp = 30 whose scaled path integral differs from a
\* positive P, and which has a call at a larger kVp to compare with
C6_Witness ==
    /\ Returned("radiograph") /\ args.kVp = 30
    /\ \E i \in 1..Len(res.P) : \E j \in 1..Len(res.P[i]) :
          res.P[i][j].n > 0 /\ res.Ps[i][j] # res.P[i][j]
    /\ \E k2 \in KvpValues : k2 > args.kVp

(***************************************************************************)
(* C7.  The exposure step, per mode.                                       *)
(***************************************************************************)
PreClipOf(o, r) == Rows(o, r.pre)

\* every pre-clip intensity is factor * I0 * exp(-P_corrected)
ExposedBy(factor, I0) ==
    LET Pc == CorrectedOf(op, res)
        pre == PreClipOf(op, res)
    IN  /\ Len(pre) = Len(Pc)
        /\ \A i \in 1..Len(Pc) : \A j \in 1..Len(Pc[i]) :
               pre[i][j] = Val(QMul(factor, I0), Pc[i][j])

\* the same call with twice the exposure time has twice the pre-clip intensity
DoublingDoubles ==
    LET r2 == Call(op, [args EXCEPT !.exposure = QMul(QInt(2), @)])
        pre == PreClipOf(op, res)
        pre2 == PreClipOf(op, r2)
    IN  /\ Len(pre2) = Len(pre)
        /\ \A i \in 1..Len(pre) : \A j \in 1..Len(pre[i]) :
               pre2[i][j] = QScale(QInt(2), pre[i][j])

\* the incident intensity of the mode: simulate_sinogram has no I0
IncidentOf(o) == IF o = "sinogram" THEN QInt(1) ELSE args.I0

\* C7 as claimed: in every mode the pre-clip intensity is the Beer-Lambert
\* intensity times exactly exposure_time / 1.0.
C7_ExposureRefTime1EveryMode ==
    \A o \in Modes : Returned(o) =>
        /\ ExposedBy(args.exposure, IncidentOf(o))
        /\ DoublingDoubles

\* C7 amended: the profiles and the sinogram multiply the Beer-Lambert intensity by
\* exactly exposure_time / 1.0 (unchanged at exposure_time = 1.0), the
\* radiograph multiplies it by exactly 3 * exposure_time (tripled at
\* exposure_time = 1.0); in every mode doubling exposure_time doubles the
\* pre-clip intensity.
C7_ExposureByMode ==
    /\ \A o \in ProfileModes \cup {"sinogram"} : Returned(o) =>
           /\ ExposedBy(args.exposure, IncidentOf(o))
           /\ DoublingDoubles
    /\ Returned("radiograph") =>
           /\ ExposedBy(QMul(QInt(3), args.exposure), args.I0)
           /\ DoublingDoubles

\* a radiograph at exposure_time = 1.0 whose pre-clip intensity is three
\* times the Beer-Lambert intensity of an attenuating pixel
C7_Witness ==
    /\ Returned("radiograph") /\ args.exposure = QInt(1)
    /\ \E i \in 1..Len(res.pre) : \E j \in 1..Len(res.pre[i]) :
          /\ res.Pc[i][j].n > 0
          /\ res.pre[i][j] = Val(QInt(3), res.Pc[i][j])

(***************************************************************************)
(* C8.  The filtration step, per mode.                                     *)
(***************************************************************************)
\* every entry of the corrected path integral is
\* Ps + filtration_mm * mu * (30 / kVp)
FilteredBy(mu) ==
    LET Ps == ScaledOf(op, res)
        Pc == CorrectedOf(op, res)
    IN  /\ Len(Pc) = Len(Ps)
        /\ \A i \in 1..Len(Ps) : \A j \in 1..Len(Ps[i]) :
               Pc[i][j] = QAdd(Ps[i][j],
                               QMul(args.filtration, QMul(mu, Q(30, args.kVp))))

\* with filtration_mm > 0 every entry is strictly larger than in the same
\* call without filtration
FiltrationIncreases ==
    args.filtration.n > 0 =>
        LET r0 == Call(op, [args EXCEPT !.filtration = QInt(0)])
            Pc == CorrectedOf(op, res)
            Pc0 == CorrectedOf(op, r0)
        IN  /\ Len(Pc0) = Len(Pc)
            /\ \A i \in 1..Len(Pc) : \A j \in 1..Len(Pc[i]) :
                   QLt(Pc0[i][j], Pc[i][j])

\* the term a result's filtration step added, as a set of values
AddedTerm(o, r) ==
    LET Ps == ScaledOf(o, r)
        Pc == CorrectedOf(o, r)
    IN  {QAdd(Pc[i][j], QNeg(Ps[i][j])) : i \in 1..Len(Ps), j \in 1..NY(Ps)}

\* C8 as claimed: every mode adds filtration_mm * mu_al_reference * (30/kVp)
\* with one and the same mu_al_reference: for the same arguments the term
\* added is the same in all three modes.
C8_OneFiltrationConstant ==
    \A o \in Modes : Returned(o) /\ args.kw = {} =>
        /\ \E mu \in {Q(12, 100), Q(15, 100)} : FilteredBy(mu)
        /\ \A o2 \in Modes :
               LET t == AddedTerm(op, res)
                   t2 == AddedTerm(o2, Call(o2, args))
               IN  t = {} \/ t2 = {} \/ t2 = t
        /\ FiltrationIncreases

\* C8 amended: the profiles and the sinogram add filtration_mm * 0.15 * (30/kVp),
\* the radiograph adds filtration_mm * 0.12 * (30/kVp); in every mode, for
\* filtration_mm > 0 and kVp > 0, the corrected path integral is strictly
\* larger than without filtration.
C8_FiltrationByMode ==
    /\ \A o \in ProfileModes \cup {"sinogram"} : Returned(o) =>
           FilteredBy(Q(15, 100)) /\ FiltrationIncreases
    /\ Returned("radiograph") =>
           FilteredBy(Q(12, 100)) /\ FiltrationIncreases

\* a radiograph with filtration at kVp = 60, whose added term (0.12) differs
\* from the one the profile adds for the same arguments (0.15)
C8_Witness ==
    /\ Returned("radiograph") /\ args.kw = {}
    /\ args.filtration.n > 0 /\ args.kVp = 60
    /\ AddedTerm("radiograph", res) # AddedTerm("profile", Call("profile", args))

(***************************************************************************)
(* C9, C10.  The crop / pad of the magnification.                          *)
(***************************************************************************)
\* a call of _apply_magnification that resampled (M not close to 1)
Resampled ==
    /\ pc = "done" /\ op = "magnify"
    /\ args.sid > 0 /\ args.sdd > 0
    /\ ~IsClose1(args.sid, args.sdd)

\* the resampled image of the call
ScaledImage == rescale(args.phantom, Magnification(args.sid, args.sdd))

\* on an axis of n output and s resampled pixels the copied block has one
\* size in source and destination, lies inside both and is centred in each
BlockCentred(s, n) ==
    /\ x_end(s, n) - x_start(s, n) = ox_end(s, n) - ox_start(s, n)
    /\ 0 <= x_start(s, n) /\ x_start(s, n) <= x_end(s, n) /\ x_end(s, n) <= s
    /\ 0 <= ox_start(s, n) /\ ox_start(s, n) <= ox_end(s, n) /\ ox_end(s, n) <= n
    /\ Abs(x_start(s, n) - (s - x_end(s, n))) <= 1
    /\ Abs(ox_start(s, n) - (n - ox_end(s, n))) <= 1
    /\ x_end(s, n) - x_start(s, n) = Min(s, n)

\* output pixel (i, j), 1-based, lies in the destination block
InBlock(i, j) ==
    LET nx == NX(args.phantom)
        ny == NY(args.phantom)
        sx == NX(ScaledImage)
        sy == NY(ScaledImage)
    IN  /\ i - 1 >= ox_start(sx, nx) /\ i - 1 < ox_end(sx, nx)
        /\ j - 1 >= ox_start(sy, ny) /\ j - 1 < ox_end(sy, ny)

\* C9: for SID, SDD > 0 magnify returns an array of exactly the input
\* shape; the block copied from the resampled image has the same size in
\* source and destination, lies within both and is centred in each (the
\* margins on opposite sides differ by at most one pixel), and the output
\* holds that block of the resampled image there.
C9_MagnifyShapeAndCentredBlock ==
    (pc = "done" /\ op = "magnify" /\ args.sid > 0 /\ args.sdd > 0) =>
        /\ res.exc = "none"
        /\ SameShape(res.val, args.phantom)
        /\ Resampled =>
             LET nx == NX(args.phantom)
                 ny == NY(args.phantom)
                 sx == NX(ScaledImage)
                 sy == NY(ScaledImage)
             IN  /\ BlockCentred(sx, nx)
                 /\ BlockCentred(sy, ny)
                 /\ \A i \in 1..nx : \A j \in 1..ny :
                        InBlock(i, j) =>
                            res.val[i][j] =
                                ScaledImage[i - ox_start(sx, nx) + x_start(sx, nx)]
                                           [j - ox_start(sy, ny) + x_start(sy, ny)]

\* a zoom in that crops an odd excess (the margins differ by exactly one)
\* on one axis and a different excess on the other
C9_Witness ==
    /\ Resampled /\ res.exc = "none"
    /\ NX(args.phantom) # NY(args.phantom)
    /\ LET nx == NX(args.phantom)
           sx == NX(ScaledImage)
       IN  /\ sx > nx
           /\ (sx - x_end(sx, nx)) - x_start(sx, nx) = 1

\* the destination block's pixel nearest to output pixel (i, j)
NearestBlockPixel(i, j) ==
    LET nx == NX(args.phantom)
        ny == NY(args.phantom)
        sx == NX(ScaledImage)
        sy == NY(ScaledImage)
    IN  res.val[Clamp(i, ox_start(sx, nx) + 1, ox_end(sx, nx))]
               [Clamp(j, ox_start(sy, ny) + 1, ox_end(sy, ny))]

\* C10 as claimed: for M < 1 every output pixel outside the resampled
\* content holds the replicated value of the content's nearest edge pixel.
C10_PadReplicatesEdge ==
    (Resampled /\ res.exc = "none" /\ args.sdd < args.sid) =>
        \A i \in 1..NX(res.val) : \A j \in 1..NY(res.val) :
            ~InBlock(i, j) => res.val[i][j] = NearestBlockPixel(i, j)

\* C10 amended: for M < 1 every output pixel of magnify outside the
\* resampled content holds the constant 0 of np.zeros_like, whatever the
\* content's edge pixels hold.
C10_PadIsZero ==
    (Resampled /\ res.exc = "none" /\ args.sdd < args.sid) =>
        \A i \in 1..NX(res.val) : \A j \in 1..NY(res.val) :
            ~InBlock(i, j) => res.val[i][j] = QInt(0)

\* a zoom out with a padded pixel that is 0 next to a content edge pixel
\* that is not
C10_Witness ==
    /\ Resampled /\ res.exc = "none" /\ args.sdd < args.sid
    /\ \E i \in 1..NX(res.val) : \E j \in 1..NY(res.val) :
          /\ ~InBlock(i, j)
          /\ res.val[i][j] = QInt(0)
          /\ NearestBlockPixel(i, j) # QInt(0)

(***************************************************************************)
(* C11.  When SDD/SID is within floating tolerance of 1, magnify returns   *)
(* an equivalent copy: the result equals the input element for element     *)
(* and is a distinct array, so a later write to the result does not        *)
(* change the caller's mu-map.                                             *)
(* Stated as claimed, of both magnifications of the repository;            *)
(* _apply_magnification returns the argument itself.                       *)
(***************************************************************************)
\* a call of one of the two magnifications with M close to 1
NoOpMagnification ==
    /\ op \in {"magnify", "magnify_nn"}
    /\ args.sid > 0 /\ IsClose1(args.sid, args.sdd)

C11_NoOpReturnsCopy ==
    NoOpMagnification =>
        /\ pc = "done" =>
             /\ res.exc = "none"
             /\ res.val = args.phantom
             /\ heap[out] = args.phantom
             /\ out # 1
        /\ pc = "written" => heap[1] = args.phantom

GeometricOrder(t) ==
    SelectSeq(t, LAMBDA x : x \in {"rotate", "magnify", "sum", "physics"})

\* C17 as claimed: for every angle of the sinogram the steps run in the
\* order of the angled 1D profile: rotate by the angle, then magnify, then
\* sum along the beam axis, then the physics chain.
C17_SinogramRotatesFirst ==
    (pc = "done" /\ op = "sinogram" /\ res.exc = "none") =>
        /\ GeometricOrder(trace) = <<"rotate", "magnify", "sum", "physics">>
        /\ GeometricOrder(trace) = GeometricOrder(Steps_simulate_projection_angle)

\* C17 amended: the sinogram magnifies the unrotated mu-map once, then
\* rotates and sums the magnified map for every angle (radon), then runs
\* the physics chain; only the angled 1D profile rotates first and then
\* magnifies.
C17_SinogramMagnifiesFirst ==
    /\ (pc = "done" /\ op = "sinogram" /\ res.exc = "none") =>
           /\ GeometricOrder(trace) = <<"magnify", "rotate", "sum", "physics">>
           /\ res.P = radon(_apply_magnification(args.phantom, args.sid, args.sdd).val,
                            res.angles)
    /\ (pc = "done" /\ op = "angled_profile" /\ res.exc = "none") =>
           /\ GeometricOrder(trace) = <<"rotate", "magnify", "sum", "physics">>
           /\ res.P = SumAxis0(_apply_magnification(rotate(args.phantom, args.angle),
                                                    args.sid, args.sdd).val)

\* a sinogram of several angles of a magnified (M = 2) mu-map that is not
\* uniform
C17_Witness ==
    /\ pc = "done" /\ op = "sinogram" /\ res.exc = "none"
    /\ Len(res.angles) >= 2
    /\ args.sdd = 2 * args.sid
    /\ \E i \in 1..NX(args.phantom) : \E j \in 1..NY(args.phantom) :
          args.phantom[i][j] # args.phantom[1][1]

(***************************************************************************)
(* Vocabulary of the properties of the phantom.                            *)
(***************************************************************************)
\* a call of create_breast_phantom has returned
Built == pc = "done" /\ op = "create_breast_phantom"

\* a compression has run: _compress_phantom alone or inside the builder
Compressed ==
    /\ pc = "done"
    /\ op = "compress" \/ (op = "create_breast_phantom" /\ args.compression)

\* the shape of the mu-map handed to the compression
RowsIn == IF op = "compress" THEN NX(args.phantom) ELSE args.nx

ColsIn == IF op = "compress" THEN NY(args.phantom) ELSE args.ny

\* the number of true pixels of a mask
Area(mask) ==
    Cardinality({p \in (1..NX(mask)) \X (1..NY(mask)) : mask[p[1]][p[2]]})

(***************************************************************************)
(* C13.  Any two calls of create_breast_phantom with identical arguments,  *)
(* in any order and interleaved with any other calls (other uses of        *)
(* random numbers included), return identical mu-maps and identical        *)
(* lesion and background masks: whatever was drawn from numpy's global     *)
(* generator before a call, the call returns what the first call with      *)
(* these arguments, made before any draw, returns.                         *)
(***************************************************************************)
C13_SameArgumentsSamePhantom ==
    Built =>
        LET first == create_breast_phantom(args, 0)
        IN  /\ res.phantom = first.phantom
            /\ res.info.lesion_mask = first.info.lesion_mask
            /\ res.info.background_mask = first.info.background_mask

\* a phantom that shows a microcalcification spot, built after other code
\* drew random numbers
C13_Witness ==
    /\ Built /\ np_random # 0
    /\ \E i \in 1..args.nx : \E j \in 1..args.ny : res.phantom[i][j] = Const(micro_mu)

(***************************************************************************)
(* C14.  For every grid height nx >= 1 and compression factor in (0, 1],   *)
(* comp_nx = max(1, floor(nx * factor)), pad_top = floor((nx-comp_nx)/2)   *)
(* and pad_bottom = nx - comp_nx - pad_top satisfy                         *)
(* comp_nx + pad_top + pad_bottom = nx and 0 <= pad_bottom - pad_top <= 1  *)
(* (an odd remainder row goes to the bottom), and the compressed mu-map    *)
(* and both compressed masks have exactly the uncompressed shape.          *)
(***************************************************************************)
C14_PadsRestoreShape ==
    Compressed =>
        LET nx == RowsIn
            f == args.compression_factor
            cnx == comp_nx(nx, f)
            top == pad_top(nx, cnx)
            bottom == pad_bottom(nx, cnx)
        IN  /\ cnx >= 1 /\ cnx <= nx
            /\ cnx > 1 => (cnx * f.d <= nx * f.n /\ nx * f.n < (cnx + 1) * f.d)
            /\ cnx + top + bottom = nx
            /\ 0 <= bottom - top /\ bottom - top <= 1
            /\ bottom - top = (nx - cnx) % 2
            /\ NX(res.phantom) = nx /\ NY(res.phantom) = ColsIn
            /\ NX(res.info.lesion_mask) = nx /\ NY(res.info.lesion_mask) = ColsIn
            /\ NX(res.info.background_mask) = nx /\ NY(res.info.background_mask) = ColsIn

\* a compression to several rows that leaves an odd number of rows to pad
C14_Witness ==
    /\ Compressed
    /\ comp_nx(RowsIn, args.compression_factor) > 1
    /\ (RowsIn - comp_nx(RowsIn, args.compression_factor)) % 2 = 1
    /\ pad_bottom(RowsIn, comp_nx(RowsIn, args.compression_factor))
         = pad_top(RowsIn, comp_nx(RowsIn, args.compression_factor)) + 1

(***************************************************************************)
(* C15.  For every lesion_radius and every compression factor in (0, 1]    *)
(* the number of true pixels of the compressed phantom's lesion mask is    *)
(* at most the number of true pixels of the uncompressed lesion mask.      *)
(* Stated as claimed; the edge padding repeats the first and the last      *)
(* compressed row, lesion pixels included.                                 *)
(***************************************************************************)
C15_CompressedLesionNotLarger ==
    (Built /\ args.compression) =>
        Area(res.info.lesion_mask)
            <= Area(LesionMask(args.nx, args.ny, args.lesion_radius))

(***************************************************************************)
(* C18.  In the uncompressed phantom the final mu of every pixel is the    *)
(* value of the last rule, in the order outline with thickness falloff (0  *)
(* outside the outline), skin rim 0.80, pectoral muscle 0.50, glandular    *)
(* tissue 0.40 (inside the outline), lesion 0.75, microcalcification       *)
(* spots 0.55 (inside the outline), benign mass 0.475 (inside the          *)
(* outline), whose region holds the pixel.                                 *)
(***************************************************************************)
\* the value of the last rule whose region holds pixel (i, j)
LastRuleValue(i, j) ==
    LET X == Linspace8(i, args.nx)
        Y == Linspace8(j, args.ny)
        inside == breast_mask(X, Y)
    IN  IF benign_mask(X, Y) /\ inside THEN Const(Q(475, 1000))
        ELSE IF spot_mask(X, Y, spot_centers(default_rng(42, np_random))) /\ inside
             THEN Const(Q(55, 100))
        ELSE IF lesion_mask(i - 1, j - 1, args.nx, args.ny, args.lesion_radius)
             THEN Const(Q(75, 100))
        ELSE IF gland_mask(X, Y) /\ inside THEN Const(Q(40, 100))
        ELSE IF pec_mask(X, Y) THEN Const(Q(50, 100))
        ELSE IF skin_rim(X, Y) THEN Const(Q(80, 100))
        ELSE IF inside THEN Falloff(Q(22, 100), ThicknessExponent(X, Y))
        ELSE Const(QInt(0))

C18_LastRuleWins ==
    (Built /\ ~args.compression) =>
        /\ NX(res.phantom) = args.nx /\ NY(res.phantom) = args.ny
        /\ \A i \in 1..args.nx : \A j \in 1..args.ny :
               res.phantom[i][j] = LastRuleValue(i, j)

\* pixel (i, j) lies in the lesion and, inside the outline, in the gland
LesionOverGland(i, j) ==
    LET X == Linspace8(i, args.nx)
        Y == Linspace8(j, args.ny)
    IN  /\ lesion_mask(i - 1, j - 1, args.nx, args.ny, args.lesion_radius)
        /\ gland_mask(X, Y) /\ breast_mask(X, Y)

\* pixel (i, j) lies in a spot inside the outline and in the lesion
SpotOverLesion(i, j) ==
    LET X == Linspace8(i, args.nx)
        Y == Linspace8(j, args.ny)
    IN  /\ lesion_mask(i - 1, j - 1, args.nx, args.ny, args.lesion_radius)
        /\ spot_mask(X, Y, spot_centers(default_rng(42, np_random)))
        /\ breast_mask(X, Y)

\* a phantom in which every rule wrote a pixel that is still seen, the
\* lesion overwrote gland and a spot overwrote the lesion
C18_Witness ==
    /\ Built /\ ~args.compression
    /\ \A v \in {Const(QInt(0)), Const(skin_mu), Const(muscle_mu), Const(gland_mu),
                 Const(lesion_mu), Const(micro_mu), Const(benign_mu)} :
          \E i \in 1..args.nx : \E j \in 1..args.ny : res.phantom[i][j] = v
    /\ \E i \in 1..args.nx : \E j \in 1..args.ny : res.phantom[i][j].kind = "falloff"
    /\ \E i \in 1..args.nx : \E j \in 1..args.ny :
          LesionOverGland(i, j) /\ res.phantom[i][j] = Const(lesion_mu)
    /\ \E i \in 1..args.nx : \E j \in 1..args.ny :
          SpotOverLesion(i, j) /\ res.phantom[i][j] = Const(micro_mu)

(***************************************************************************)
(* C19.  In the info returned by create_breast_phantom the lesion mask     *)
(* and the background mask never share a true pixel, for the uncompressed  *)
(* phantom (where the background mask also lies inside the breast          *)
(* outline) and for the compressed phantom, whose masks are resampled,     *)
(* thresholded at > 0.5 and edge-padded one by one.                        *)
(***************************************************************************)
C19_MasksDisjoint ==
    Built =>
        /\ \A i \in 1..args.nx : \A j \in 1..args.ny :
               ~(res.info.lesion_mask[i][j] /\ res.info.background_mask[i][j])
        /\ ~args.compression =>
               \A i \in 1..args.nx : \A j \in 1..args.ny :
                   res.info.background_mask[i][j] =>
                       breast_mask(Linspace8(i, args.nx), Linspace8(j, args.ny))

\* a compressed phantom with rows to pad whose masks both hold pixels and
\* whose lesion mask is not the uncompressed one
C19_Witness ==
    /\ Built /\ args.compression
    /\ comp_nx(args.nx, args.compression_factor) < args.nx
    /\ Area(res.info.lesion_mask) > 0
    /\ Area(res.info.background_mask) > 0
    /\ res.info.lesion_mask # LesionMask(args.nx, args.ny, args.lesion_radius)

(***************************************************************************)
(* C16.  No operation of the pipeline (magnify, profile, angled profile,   *)
(* radiograph, sinogram, phantom compression) modifies any of its inputs:  *)
(* when a call returns, the caller's mu-map array, and for a compression   *)
(* the caller's info record with its ROI masks, hold element for element   *)
(* what the caller passed, whatever calls came before; every array a call  *)
(* writes in place is an object the call made itself.                      *)
(***************************************************************************)
C16_InputsUnchanged ==
    /\ (pc = "done" /\ op \in ArrayCalls) =>
           /\ Len(heap) >= 1
           /\ heap[1] = args.phantom
    /\ (pc = "done" /\ op = "compress") =>
           /\ Len(heap) = 4
           /\ heap[1] = args.phantom
           /\ heap[2] = args.info
           /\ out = <<3, 4>>

\* a magnification that resampled: the array it returns is a new object
\* whose content, written in place, differs from the input
C16_Witness ==
    /\ pc = "done" /\ op = "magnify"
    /\ out > 1 /\ heap[out] # heap[1]

\* a compression whose info record was copied and then rewritten
C16_WitnessCompression ==
    /\ pc = "done" /\ op = "compress"
    /\ heap[4] # heap[2]
    /\ heap[3] # heap[1]

(***************************************************************************)
(* C20.  After any sequence of slider, view-mode and checkbox events,      *)
(* every ROI statistic was computed on a mu-map and the masks of the info  *)
(* record of that same phantom variant (compressed with compressed, native *)
(* with native), the current statistics on the variant shown, and no ROI   *)
(* statistic is computed while the Shepp-Logan phantom is selected.        *)
(***************************************************************************)
C20_RoiOnMatchingVariant ==
    /\ \A k \in DOMAIN gui.roi_calls :
           /\ gui.roi_calls[k].image \in {"breast_base", "breast_compressed"}
           /\ gui.roi_calls[k].info = InfoOf(gui.roi_calls[k].image)
    /\ gui.breast_toggle =>
           /\ Len(gui.roi_calls) = 6
           /\ gui.roi_calls[1].image = gui.shown
           /\ gui.roi_calls[2].image = gui.shown
    /\ ~gui.breast_toggle =>
           /\ gui.shown = "phantom"
           /\ gui.roi_calls = <<>>
           /\ gui.roi_stats = "ROI stats: N/A (toggle breast phantom)"

\* the compressed breast phantom is shown in the sinogram view after the
\* sliders were moved, and its statistics were computed
C20_Witness ==
    /\ gui.breast_toggle /\ gui.compress_toggle
    /\ gui.view_selector = "Sinogram" /\ gui.angle_slider = 180
    /\ gui.shown = "breast_compressed"
    /\ gui.roi_calls # <<>>
    /\ gui.roi_calls[1].info = "breast_info_compressed"

(***************************************************************************)
(* C21.  In every reachable state of the window, every pipeline call made  *)
(* by update_projection receives kVp > 0, SID > 0 and SDD > 0 (the derived *)
(* closer SID max(100, int(0.7 * SID)) included), an exposure in           *)
(* [0.01, 3.0], a filtration in [0, 10] and a grid ratio in {0.75, 1.0}:   *)
(* no division by kVp or SID of the pipeline meets a zero or negative      *)
(* divisor.                                                                *)
(***************************************************************************)
C21_CallsWithinRanges ==
    /\ Len(gui.pipeline_calls) >= 5
    /\ \A k \in DOMAIN gui.pipeline_calls :
           LET c == gui.pipeline_calls[k]
           IN  /\ c.kVp > 0 /\ c.sid > 0 /\ c.sdd > 0
               /\ QLe(Q(1, 100), c.exposure_time) /\ QLe(c.exposure_time, QInt(3))
               /\ c.filtration_mmAl >= 0 /\ c.filtration_mmAl <= 10
               /\ c.grid_ratio \in {Q(75, 100), QInt(1)}
    /\ gui.pipeline_calls[3].sid >= 100
    /\ gui.pipeline_calls[3].sid = Max(100, (gui.sid_slider * 7) \div 10)

\* the sliders of SID, kVp, exposure and filtration at their minimum, the
\* grid on: the seven calls of the breast phantom, the third at SID 140
C21_Witness ==
    /\ gui.sid_slider = 200 /\ gui.kvp_slider = 20
    /\ gui.exp_slider = 1 /\ gui.filt_slider = 0
    /\ gui.grid_toggle /\ gui.breast_toggle
    /\ Len(gui.pipeline_calls) = 7
    /\ gui.pipeline_calls[3].sid = 140
    /\ gui.pipeline_calls[1].kVp = 20
    /\ gui.pipeline_calls[1].exposure_time = Q(1, 100)
    /\ gui.pipeline_calls[1].grid_ratio = Q(75, 100)

====
